---- MODULE Spec2Model ----
(***************************************************************************)
(* Port Event & State Controller (SONiCInterruptController).               *)
(* State: the controller's maps, event log, statistics, handler            *)
(* registries and three mutexes, the external key-value store, and the     *)
(* position of every caller thread inside the operation it executes.       *)
(***************************************************************************)
EXTENDS Integers, Sequences, FiniteSets, TLC

\* ------------------------------------------------------------------ bounds
MaxCalls  == 3   \* calls the test driver makes (simulate*, register*)
MaxFlap   == 2   \* largest flap_count passed to simulateLinkFlap
MaxFaults == 1   \* external commands that fail

\* ------------------------------------------------------- program constants
\* enum class CableEvent
CABLE_INSERTED == 0
CABLE_REMOVED  == 1
LINK_UP        == 2
LINK_DOWN      == 3
SFP_INSERTED   == 4
SFP_REMOVED    == 5
SPEED_CHANGE   == 6
DUPLEX_CHANGE  == 7

CableEvent == CABLE_INSERTED..DUPLEX_CHANGE

\* enum class LinkStatus
LinkStatus == {"UP", "DOWN", "UNKNOWN"}

\* redis database ids used by the controller
APPL_DB   == 0
CONFIG_DB == 4
STATE_DB  == 6

\* ------------------------------------------------------------- port names
Digits   == {"0", "1", "2", "3", "4", "5", "6", "7", "8", "9"}
Ethernet == <<"E", "t", "h", "e", "r", "n", "e", "t">>

Ethernet0  == Ethernet \o <<"0">>
Ethernet4  == Ethernet \o <<"4">>
BareName   == Ethernet                       \* "Ethernet": no digits
LowerName  == <<"e", "t", "h", "0">>         \* "eth0"
SuffixName == Ethernet \o <<"4", "x">>       \* "Ethernet4x"

\* the names callers pass in
PortNames == {Ethernet0, BareName, LowerName, SuffixName}

\* std::regex_match(port_name, "^Ethernet[0-9]+$")
validatePortNameNoDigits(port_name) ==
    /\ Len(port_name) >= Len(Ethernet)
    /\ SubSeq(port_name, 1, Len(Ethernet)) = Ethernet
    /\ \A k \in (Len(Ethernet) + 1)..Len(port_name) : port_name[k] \in Digits

validatePortName(port_name) ==
    /\ Len(port_name) > Len(Ethernet)
    /\ SubSeq(port_name, 1, Len(Ethernet)) = Ethernet
    /\ \A k \in (Len(Ethernet) + 1)..Len(port_name) : port_name[k] \in Digits

\* --------------------------------------------------------------- helpers
\* an assignment that drops every other entry of the map
PutAlone(m, k, v) == [x \in {k} |-> v]

Put(m, k, v) == [x \in (DOMAIN m) \cup {k} |-> IF x = k THEN v ELSE m[x]]

EmptyMap == [x \in {} |-> 0]

\* LinkStatus parseSONiCLinkStatus(const std::string&)
parseSONiCLinkStatus(status_str) ==
    IF status_str = "up" THEN "UP"
    ELSE IF status_str = "down" THEN "DOWN"
    ELSE "UNKNOWN"

\* std::string cableEventToString(CableEvent)
cableEventToString(event) ==
    CASE event = CABLE_INSERTED -> "CABLE_INSERTED"
      [] event = CABLE_REMOVED  -> "CABLE_REMOVED"
      [] event = LINK_UP        -> "LINK_UP"
      [] event = LINK_DOWN      -> "LINK_DOWN"
      [] event = SFP_INSERTED   -> "SFP_INSERTED"
      [] event = SFP_REMOVED    -> "SFP_REMOVED"
      [] event = SPEED_CHANGE   -> "SPEED_CHANGE"
      [] event = DUPLEX_CHANGE  -> "DUPLEX_CHANGE"
      [] OTHER                  -> "UNKNOWN_EVENT"

\* the LinkState fields the operations read and write
DefaultLinkState ==
    [admin_status |-> "UNKNOWN", oper_status |-> "UNKNOWN",
     link_up_count |-> 0, link_down_count |-> 0]

\* SFPInfo arguments callers pass to simulateSFPInsertion
SFPInfos ==
    {[is_present |-> TRUE, vendor_name |-> "Test Vendor",
      part_number |-> "TEST-SFP-001", serial_number |-> "TST0"],
     [is_present |-> FALSE, vendor_name |-> "Other Vendor",
      part_number |-> "OTH-1", serial_number |-> "OTH0"]}

DefaultSFPInfo ==
    [is_present |-> FALSE, vendor_name |-> "", part_number |-> "",
     serial_number |-> ""]

NoEvent ==
    [port_name |-> <<>>, event_type |-> CABLE_INSERTED,
     old_status |-> "UNKNOWN", new_status |-> "UNKNOWN"]

\* what a registered std::function does when it is called
HandlerBehaviours == {"returns", "throws_std_exception", "throws_other"}

\* handlers that read the State Store when they are called
CallbackBehaviours == {"returns", "calls_getPortLinkState"}

\* handlers that register a further handler when they are called
RegisteringBehaviours ==
    {"returns", "calls_registerEventHandler",
     "calls_registerGlobalEventHandler"}

\* event kinds callers register handlers for
RegKinds == {CABLE_INSERTED, CABLE_REMOVED}

Threads == {1, 2}
NoThread == 0
NoWorker == 0

VARIABLES
    m_port_states,       \* std::map<std::string, LinkState>
    m_sfp_info,          \* std::map<std::string, SFPInfo>
    m_event_history,     \* std::vector<PortEvent>
    m_event_statistics,  \* std::map<std::string, uint64_t>
    m_event_handlers,    \* std::map<CableEvent, std::vector<InterruptHandler>>
    m_global_handlers,   \* std::vector<InterruptHandler>
    m_state_mutex,       \* owner thread, NoThread when free
    m_event_mutex,
    m_handler_mutex,
    redis,               \* external store: <<db, table, port, field>> -> value
    th,                  \* per caller thread: position and locals
    callers,             \* the threads that issue calls in this behaviour
    ncalls,              \* calls the test driver has made so far
    nfaults,             \* external commands that have failed so far
    nreg,                \* handlers registered so far
    dispatched,          \* per logged event: the handlers invoked for it
    pre,                 \* per thread: controller state when its call began
    m_initialized,       \* bool
    m_monitoring,        \* std::atomic<bool>
    m_monitor_thread,    \* std::unique_ptr<std::thread>: a worker, or NoWorker
    workers,             \* the monitoringLoop threads spawned so far
    terminated           \* std::terminate has been called

vars == <<m_port_states, m_sfp_info, m_event_history, m_event_statistics,
          m_event_handlers, m_global_handlers, m_state_mutex, m_event_mutex,
          m_handler_mutex, redis, th, callers, ncalls, nfaults, nreg,
          dispatched, pre, m_initialized, m_monitoring, m_monitor_thread,
          workers, terminated>>

\* the Background Poller and the initialized flag
pollerVars == <<m_initialized, m_monitoring, m_monitor_thread, workers,
                terminated>>


\* ------------------------------------------------------------ thread state
IdleThread ==
    [pc |-> "idle", op |-> "none", sub |-> "none", port_name |-> <<>>,
     flap_count |-> 0, i |-> 0, sfp_info |-> DefaultSFPInfo,
     current_state |-> DefaultLinkState, old_status |-> "UNKNOWN",
     event |-> NoEvent, evidx |-> 0, idx |-> 0, wres |-> TRUE,
     nwrites |-> 0, wfail |-> FALSE, result |-> "none",
     expected |-> "UNKNOWN", ret |-> <<>>]

\* the controller state a call starts from
Snapshot ==
    [m_port_states |-> m_port_states, m_sfp_info |-> m_sfp_info,
     m_event_history |-> m_event_history,
     m_event_statistics |-> m_event_statistics,
     dispatched |-> dispatched, redis |-> redis,
     m_initialized |-> m_initialized, m_monitoring |-> m_monitoring,
     nworkers |-> Len(workers)]

\* the controller after construction
InitLocal ==
    /\ m_port_states = EmptyMap
    /\ m_sfp_info = EmptyMap
    /\ m_event_history = <<>>
    /\ m_event_statistics = EmptyMap
    /\ m_event_handlers = EmptyMap
    /\ m_global_handlers = <<>>
    /\ m_state_mutex = NoThread
    /\ m_event_mutex = NoThread
    /\ m_handler_mutex = NoThread
    /\ th = [t \in Threads |-> IdleThread]
    /\ ncalls = 0
    /\ nfaults = 0
    /\ nreg = 0
    /\ dispatched = <<>>
    /\ m_initialized = FALSE
    /\ m_monitoring = FALSE
    /\ m_monitor_thread = NoWorker
    /\ workers = <<>>
    /\ terminated = FALSE
    /\ pre = [t \in Threads |-> Snapshot]

\* ... with nothing yet in the external store
InitCommon ==
    /\ redis = EmptyMap
    /\ InitLocal

\* one test driver thread
Init ==
    /\ InitCommon
    /\ callers = {1}

\* LinkState getPortLinkStateUnsafe(port_name): the entry, or the default
getPortLinkStateUnsafe(port_name) ==
    IF port_name \in DOMAIN m_port_states
    THEN m_port_states[port_name]
    ELSE DefaultLinkState

\* executeSONiCCommand returns (result == 0): a command may exit non-zero
WriteOutcomes == IF nfaults < MaxFaults THEN BOOLEAN ELSE {TRUE}

\* bool setRedisHashField(key, field, value, db) when the command exits 0
setRedisHashField(r, db, table, port_name, field, value) ==
    Put(r, <<db, table, port_name, field>>, value)

\* --------------------------------------------------- returning to a caller
\* a top-level operation hands its result to the test driver
ReturnTop(thr, res) ==
    [thr EXCEPT !.pc = "idle", !.result = res,
                !.current_state = DefaultLinkState,
                !.old_status = "UNKNOWN", !.event = NoEvent,
                !.evidx = 0, !.idx = 0, !.wres = TRUE]

\* simulateLinkFlap ignoring the sub-step's return value
FlapAfterSubIgnoresFailure(thr, ok) ==
    IF thr.sub = "removal"
    THEN [thr EXCEPT !.pc = "lock_state", !.sub = "insertion"]
    ELSE [thr EXCEPT !.pc = "flap_loop", !.i = @ + 1]

\* simulateLinkFlap after simulateCableRemoval / simulateCableInsertion
\* returned ok: `if (!simulate...) return false;`, then the next sub-step
FlapAfterSub(thr, ok) ==
    IF ~ok THEN ReturnTop(thr, "false")
    ELSE IF thr.sub = "removal"
    THEN IF validatePortName(thr.port_name)
         THEN [thr EXCEPT !.pc = "lock_state", !.sub = "insertion"]
         ELSE ReturnTop([thr EXCEPT !.sub = "insertion"], "false")
    ELSE [thr EXCEPT !.pc = "flap_loop", !.i = @ + 1]

\* a simulate operation returns ok to whoever called it
SimReturn(thr, ok) ==
    IF thr.op = "flap"
    THEN FlapAfterSub(thr, ok)
    ELSE ReturnTop(thr, IF ok THEN "true" ELSE "false")

\* an exception leaving triggerEvent unwinds every frame up to the driver
Unwind(thr) == ReturnTop(thr, "exception")

CanCall(t) ==
    /\ t \in callers
    /\ th[t].pc = "idle"
    /\ ncalls < MaxCalls

Begin(t, op, sub, port_name) ==
    [IdleThread EXCEPT !.op = op, !.sub = sub, !.port_name = port_name]


\* ------------------------------------------------- cable event simulation
stateVars   == <<m_port_states, m_sfp_info>>
logVars     == <<m_event_history, m_event_statistics, dispatched>>
handlerVars == <<m_event_handlers, m_global_handlers, nreg>>
mutexVars   == <<m_state_mutex, m_event_mutex, m_handler_mutex>>

\* simulateCableInsertion: validatePortName, then on to the lock_guard
SimulateCableInsertion(t, port_name) ==
    /\ CanCall(t)
    /\ ncalls' = ncalls + 1
    /\ pre' = [pre EXCEPT ![t] = Snapshot]
    /\ th' = [th EXCEPT ![t] =
                IF validatePortName(port_name)
                THEN [Begin(t, "insertion", "insertion", port_name)
                        EXCEPT !.pc = "lock_state"]
                ELSE ReturnTop(Begin(t, "insertion", "insertion", port_name),
                               "false")]
    /\ UNCHANGED <<stateVars, logVars, handlerVars, mutexVars, redis,
                   callers, pollerVars,
                   nfaults>>

\* simulateCableRemoval: validatePortName, then on to the lock_guard
SimulateCableRemoval(t, port_name) ==
    /\ CanCall(t)
    /\ ncalls' = ncalls + 1
    /\ pre' = [pre EXCEPT ![t] = Snapshot]
    /\ th' = [th EXCEPT ![t] =
                IF validatePortName(port_name)
                THEN [Begin(t, "removal", "removal", port_name)
                        EXCEPT !.pc = "lock_state"]
                ELSE ReturnTop(Begin(t, "removal", "removal", port_name),
                               "false")]
    /\ UNCHANGED <<stateVars, logVars, handlerVars, mutexVars, redis,
                   callers, pollerVars,
                   nfaults>>

\* std::lock_guard lock(m_state_mutex); current_state, old_status
LockState(t) ==
    /\ th[t].pc = "lock_state"
    /\ m_state_mutex = NoThread
    /\ m_state_mutex' = t
    /\ th' = [th EXCEPT ![t].pc = "write_oper_status",
                        ![t].current_state =
                            getPortLinkStateUnsafe(th[t].port_name),
                        ![t].old_status =
                            getPortLinkStateUnsafe(th[t].port_name).oper_status]
    /\ UNCHANGED <<stateVars, logVars, handlerVars, m_event_mutex,
                   m_handler_mutex, redis,
                   callers, pollerVars, ncalls, nfaults, pre>>

\* setRedisHashField("PORT_TABLE:" + port_name, "oper_status", ..., 0);
\* the command may fail, and then the operation returns false
WriteOperStatus(t) ==
    /\ th[t].pc = "write_oper_status"
    /\ \E ok \in WriteOutcomes :
        /\ nfaults' = IF ok THEN nfaults ELSE nfaults + 1
        /\ LET thr == [th[t] EXCEPT !.nwrites = @ + 1,
                                    !.wfail = @ \/ ~ok]
               value == IF thr.sub = "insertion" THEN "up" ELSE "down"
           IN  IF ok
               THEN /\ redis' = setRedisHashField(redis, APPL_DB, "PORT_TABLE",
                                                  thr.port_name, "oper_status",
                                                  value)
                    /\ th' = [th EXCEPT ![t] = [thr EXCEPT !.pc = "write_present"]]
                    /\ UNCHANGED m_state_mutex
               ELSE /\ redis' = redis
                    /\ th' = [th EXCEPT ![t] = SimReturn(thr, FALSE)]
                    /\ m_state_mutex' = NoThread
    /\ UNCHANGED <<stateVars, logVars, handlerVars, m_event_mutex,
                   m_handler_mutex, callers, pollerVars, ncalls, pre>>

\* the bug of committing the local state before the result is checked
WritePresentCommitsFirst(t) ==
    /\ th[t].pc = "write_present"
    /\ \E ok \in WriteOutcomes :
        /\ nfaults' = IF ok THEN nfaults ELSE nfaults + 1
        /\ LET thr == [th[t] EXCEPT !.nwrites = @ + 1,
                                    !.wfail = @ \/ ~ok]
               value == IF thr.sub = "insertion" THEN "true" ELSE "false"
               status == IF thr.sub = "insertion" THEN "UP" ELSE "DOWN"
           IN  /\ m_port_states' =
                     Put(m_port_states, thr.port_name,
                         [thr.current_state EXCEPT !.oper_status = status])
               /\ IF ok
                  THEN /\ redis' = setRedisHashField(redis, STATE_DB,
                                       "TRANSCEIVER_INFO", thr.port_name,
                                       "present", value)
                       /\ th' = [th EXCEPT ![t] =
                                   [thr EXCEPT !.pc = "update_state"]]
                       /\ UNCHANGED m_state_mutex
                  ELSE /\ redis' = redis
                       /\ th' = [th EXCEPT ![t] = SimReturn(thr, FALSE)]
                       /\ m_state_mutex' = NoThread
    /\ UNCHANGED <<m_sfp_info, logVars, handlerVars, m_event_mutex,
                   m_handler_mutex, callers, pollerVars, ncalls, pre>>

\* setRedisHashField("TRANSCEIVER_INFO|" + port_name, "present", ..., 6)
WritePresent(t) ==
    /\ th[t].pc = "write_present"
    /\ \E ok \in WriteOutcomes :
        /\ nfaults' = IF ok THEN nfaults ELSE nfaults + 1
        /\ LET thr == [th[t] EXCEPT !.nwrites = @ + 1,
                                    !.wfail = @ \/ ~ok]
               value == IF thr.sub = "insertion" THEN "true" ELSE "false"
           IN  IF ok
               THEN /\ redis' = setRedisHashField(redis, STATE_DB,
                                    "TRANSCEIVER_INFO", thr.port_name,
                                    "present", value)
                    /\ th' = [th EXCEPT ![t] = [thr EXCEPT !.pc = "update_state"]]
                    /\ UNCHANGED m_state_mutex
               ELSE /\ redis' = redis
                    /\ th' = [th EXCEPT ![t] = SimReturn(thr, FALSE)]
                    /\ m_state_mutex' = NoThread
    /\ UNCHANGED <<stateVars, logVars, handlerVars, m_event_mutex,
                   m_handler_mutex, callers, pollerVars, ncalls, pre>>

\* an insertion that forgets link_up_count++
InsertedStateNoCount(current_state) ==
    [current_state EXCEPT !.oper_status = "UP"]

\* current_state.oper_status = UP; current_state.link_up_count++
InsertedState(current_state) ==
    [current_state EXCEPT !.oper_status = "UP", !.link_up_count = @ + 1]

\* a removal that counts but leaves oper_status as it was
RemovedStateKeepsStatus(current_state) ==
    [current_state EXCEPT !.link_down_count = @ + 1]

\* current_state.oper_status = DOWN; current_state.link_down_count++
RemovedState(current_state) ==
    [current_state EXCEPT !.oper_status = "DOWN", !.link_down_count = @ + 1]

\* m_port_states[port_name] = current_state; the PortEvent is built
UpdateState(t) ==
    /\ th[t].pc = "update_state"
    /\ LET thr == th[t]
           ins == thr.sub = "insertion"
           new_state == IF ins THEN InsertedState(thr.current_state)
                        ELSE RemovedState(thr.current_state)
       IN  /\ m_port_states' = Put(m_port_states, thr.port_name, new_state)
           /\ th' = [th EXCEPT ![t].pc = "lock_event",
                               ![t].current_state = new_state,
                               ![t].event =
                                   [port_name |-> thr.port_name,
                                    event_type |-> IF ins THEN CABLE_INSERTED
                                                   ELSE CABLE_REMOVED,
                                    old_status |-> thr.old_status,
                                    new_status |-> IF ins THEN "UP"
                                                   ELSE "DOWN"]]
    /\ UNCHANGED <<m_sfp_info, logVars, handlerVars, mutexVars, redis,
                   callers, pollerVars, ncalls, nfaults, pre>>


\* ------------------------------------------------------------ triggerEvent
\* a counter that is set to 1 instead of incremented
updateEventStatisticsOverwrites(stats, event) ==
    Put(stats, cableEventToString(event), 1)

\* m_event_statistics[cableEventToString(event)]++
updateEventStatistics(stats, event) ==
    LET event_name == cableEventToString(event)
    IN  Put(stats, event_name,
            IF event_name \in DOMAIN stats THEN stats[event_name] + 1 ELSE 1)

\* lock_guard event_lock(m_event_mutex); push_back; updateEventStatistics
LockEvent(t) ==
    /\ th[t].pc = "lock_event"
    /\ m_event_mutex = NoThread
    /\ m_event_mutex' = t
    /\ m_event_history' = Append(m_event_history, th[t].event)
    /\ m_event_statistics' =
           updateEventStatistics(m_event_statistics, th[t].event.event_type)
    /\ dispatched' = Append(dispatched, [nreg |-> nreg, called |-> <<>>])
    /\ th' = [th EXCEPT ![t].pc = "lock_handler",
                        ![t].evidx = Len(m_event_history) + 1]
    /\ UNCHANGED <<stateVars, handlerVars, m_state_mutex, m_handler_mutex,
                   redis, callers, pollerVars, ncalls, nfaults, pre>>

\* lock_guard handler_lock(m_handler_mutex); m_event_handlers.find(...)
LockHandler(t) ==
    /\ th[t].pc = "lock_handler"
    /\ m_handler_mutex = NoThread
    /\ m_handler_mutex' = t
    /\ th' = [th EXCEPT ![t].pc = "dispatch_specific", ![t].idx = 1]
    /\ UNCHANGED <<stateVars, logVars, handlerVars, m_state_mutex,
                   m_event_mutex, redis,
                   callers, pollerVars, ncalls, nfaults, pre>>

\* it->second of m_event_handlers.find(event_type), empty when not found
SpecificHandlers(event_type) ==
    IF event_type \in DOMAIN m_event_handlers
    THEN m_event_handlers[event_type]
    ELSE <<>>

\* try { handler(event); } catch (const std::exception&): what gets past it
Escapes(handler) == handler.behaviour = "throws_other"

\* the handler calls getPortLinkState, which locks m_state_mutex
Reenters(handler) == handler.behaviour = "calls_getPortLinkState"

\* the handler calls registerEventHandler or registerGlobalEventHandler,
\* which lock m_handler_mutex
Registers(handler) ==
    handler.behaviour \in
        {"calls_registerEventHandler", "calls_registerGlobalEventHandler"}

\* the handler locks a mutex the dispatching thread t owns; triggerEvent
\* holds m_handler_mutex over both loops
Relocks(t, handler) ==
    \/ Reenters(handler) /\ m_state_mutex = t
    \/ Registers(handler) /\ m_handler_mutex = t

\* std::mutex::lock by the thread that owns the mutex is undefined: the
\* call never returns, or it throws std::system_error, which the catch
\* clause of triggerEvent handles
RelockOutcomes == {"blocks_forever", "throws_system_error"}

\* the handler at position idx of `list` runs on the calling thread; an
\* exception the catch clause does not name leaves triggerEvent and the
\* simulate operation, whose lock_guards release on the way out
Invoke(t, list) ==
    LET thr == th[t]
        handler == list[thr.idx]
    IN  /\ Reenters(handler) => m_state_mutex \in {t, NoThread}
        /\ dispatched' = [dispatched EXCEPT ![thr.evidx].called =
                              Append(@, handler.id)]
        /\ IF Escapes(handler)
           THEN /\ th' = [th EXCEPT ![t] = Unwind(thr)]
                /\ m_state_mutex' = NoThread
                /\ m_event_mutex' = NoThread
                /\ m_handler_mutex' = NoThread
           ELSE IF Relocks(t, handler)
           THEN /\ \E outcome \in RelockOutcomes :
                     th' = [th EXCEPT ![t] =
                              IF outcome = "blocks_forever"
                              THEN [thr EXCEPT !.pc = "deadlock"]
                              ELSE [thr EXCEPT !.idx = @ + 1]]
                /\ UNCHANGED mutexVars
           ELSE /\ th' = [th EXCEPT ![t].idx = @ + 1]
                /\ UNCHANGED mutexVars
        /\ UNCHANGED <<stateVars, m_event_history, m_event_statistics,
                       handlerVars, redis, callers, pollerVars, ncalls,
                       nfaults, pre>>

\* for (const auto& handler : it->second)
InvokeSpecificHandler(t) ==
    /\ th[t].pc = "dispatch_specific"
    /\ th[t].idx <= Len(SpecificHandlers(th[t].event.event_type))
    /\ Invoke(t, SpecificHandlers(th[t].event.event_type))

\* the kind-specific loop ends, the global loop begins
EndSpecific(t) ==
    /\ th[t].pc = "dispatch_specific"
    /\ th[t].idx > Len(SpecificHandlers(th[t].event.event_type))
    /\ th' = [th EXCEPT ![t].pc = "dispatch_global", ![t].idx = 1]
    /\ UNCHANGED <<stateVars, logVars, handlerVars, mutexVars, redis,
                   callers, pollerVars, ncalls, nfaults, pre>>

\* for (const auto& handler : m_global_handlers)
InvokeGlobalHandler(t) ==
    /\ th[t].pc = "dispatch_global"
    /\ th[t].idx <= Len(m_global_handlers)
    /\ Invoke(t, m_global_handlers)

\* a global loop that stops one handler short
GlobalLoopDoneEarly(thr) == thr.idx >= Len(m_global_handlers)

\* the global loop has visited every element of m_global_handlers
GlobalLoopDone(thr) == thr.idx > Len(m_global_handlers)

\* a lock_guard whose destructor leaves the mutex with its owner
StillOwnedBy(t) == t

\* ~lock_guard() at the end of the scope: the mutex t owned is free
Unlocked(t) == NoThread

\* triggerEvent returns, the simulate operation returns true; the three
\* lock_guards release
FinishTrigger(t) ==
    /\ th[t].pc = "dispatch_global"
    /\ GlobalLoopDone(th[t])
    /\ th' = [th EXCEPT ![t] = SimReturn(th[t], TRUE)]
    /\ m_state_mutex' = Unlocked(t)
    /\ m_event_mutex' = Unlocked(t)
    /\ m_handler_mutex' = Unlocked(t)
    /\ UNCHANGED <<stateVars, logVars, handlerVars, redis,
                   callers, pollerVars, ncalls,
                   nfaults, pre>>

\* ------------------------------------------------------- simulateLinkFlap
FlapCounts == (-1)..MaxFlap

\* simulateLinkFlap(port_name, flap_count): i = 0
SimulateLinkFlap(t, port_name, flap_count) ==
    /\ CanCall(t)
    /\ ncalls' = ncalls + 1
    /\ pre' = [pre EXCEPT ![t] = Snapshot]
    /\ th' = [th EXCEPT ![t] =
                [Begin(t, "flap", "none", port_name)
                   EXCEPT !.pc = "flap_loop", !.flap_count = flap_count]]
    /\ UNCHANGED <<stateVars, logVars, handlerVars, mutexVars, redis,
                   callers, pollerVars,
                   nfaults>>

\* for (int i = 0; i < flap_count; i++) { if (!simulateCableRemoval(...
FlapLoop(t) ==
    /\ th[t].pc = "flap_loop"
    /\ LET thr == th[t]
       IN  th' = [th EXCEPT ![t] =
                IF thr.i < thr.flap_count
                THEN IF validatePortName(thr.port_name)
                     THEN [thr EXCEPT !.pc = "lock_state", !.sub = "removal"]
                     ELSE ReturnTop([thr EXCEPT !.sub = "removal"], "false")
                ELSE ReturnTop(thr, "true")]
    /\ UNCHANGED <<stateVars, logVars, handlerVars, mutexVars, redis,
                   callers, pollerVars, ncalls, nfaults, pre>>


\* --------------------------------------------------------- SFP simulation
\* the four fields simulateSFPInsertion writes, in order
SfpFields == <<"present", "vendor_name", "part_number", "serial_number">>

SfpFieldValue(sfp_info, field) ==
    CASE field = "present"       -> "true"
      [] field = "vendor_name"   -> sfp_info.vendor_name
      [] field = "part_number"   -> sfp_info.part_number
      [] field = "serial_number" -> sfp_info.serial_number

\* simulateSFPInsertion: validatePortName, then the writes
SimulateSFPInsertion(t, port_name, sfp_info) ==
    /\ CanCall(t)
    /\ ncalls' = ncalls + 1
    /\ pre' = [pre EXCEPT ![t] = Snapshot]
    /\ th' = [th EXCEPT ![t] =
                LET thr == [Begin(t, "sfp_insertion", "sfp_insertion",
                                  port_name)
                              EXCEPT !.sfp_info = sfp_info]
                IN  IF validatePortName(port_name)
                    THEN [thr EXCEPT !.pc = "sfp_insertion_write", !.idx = 1]
                    ELSE ReturnTop(thr, "false")]
    /\ UNCHANGED <<stateVars, logVars, handlerVars, mutexVars, redis,
                   callers, pollerVars,
                   nfaults>>

\* an insertion that goes on whatever the writes returned
SfpAfterWritesIgnoresResult(thr) == [thr EXCEPT !.pc = "sfp_lock_state"]

\* if (!result) return false; otherwise on to the lock_guard
SfpAfterWrites(thr) ==
    IF thr.wres THEN [thr EXCEPT !.pc = "sfp_lock_state"]
    ELSE ReturnTop(thr, "false")

\* result = setRedisHashField(...); result &= setRedisHashField(...) x 3;
\* every write is issued, `if (!result) return false` follows the fourth
SfpInsertionWrite(t) ==
    /\ th[t].pc = "sfp_insertion_write"
    /\ \E ok \in WriteOutcomes :
        /\ nfaults' = IF ok THEN nfaults ELSE nfaults + 1
        /\ LET thr == [th[t] EXCEPT !.nwrites = @ + 1,
                                    !.wfail = @ \/ ~ok,
                                    !.wres = @ /\ ok]
               field == SfpFields[thr.idx]
           IN  /\ redis' = IF ok
                           THEN setRedisHashField(redis, STATE_DB,
                                    "TRANSCEIVER_INFO", thr.port_name, field,
                                    SfpFieldValue(thr.sfp_info, field))
                           ELSE redis
               /\ th' = [th EXCEPT ![t] =
                           IF thr.idx < Len(SfpFields)
                           THEN [thr EXCEPT !.idx = @ + 1]
                           ELSE SfpAfterWrites(thr)]
    /\ UNCHANGED <<stateVars, logVars, handlerVars, mutexVars,
                   callers, pollerVars,
                   ncalls, pre>>

\* simulateSFPRemoval: validatePortName, then the write
SimulateSFPRemoval(t, port_name) ==
    /\ CanCall(t)
    /\ ncalls' = ncalls + 1
    /\ pre' = [pre EXCEPT ![t] = Snapshot]
    /\ th' = [th EXCEPT ![t] =
                IF validatePortName(port_name)
                THEN [Begin(t, "sfp_removal", "sfp_removal", port_name)
                        EXCEPT !.pc = "sfp_removal_write"]
                ELSE ReturnTop(Begin(t, "sfp_removal", "sfp_removal",
                                     port_name), "false")]
    /\ UNCHANGED <<stateVars, logVars, handlerVars, mutexVars, redis,
                   callers, pollerVars,
                   nfaults>>

\* setRedisHashField(sfp_key, "present", "false", 6)
SfpRemovalWrite(t) ==
    /\ th[t].pc = "sfp_removal_write"
    /\ \E ok \in WriteOutcomes :
        /\ nfaults' = IF ok THEN nfaults ELSE nfaults + 1
        /\ LET thr == [th[t] EXCEPT !.nwrites = @ + 1,
                                    !.wfail = @ \/ ~ok]
           IN  /\ redis' = IF ok
                           THEN setRedisHashField(redis, STATE_DB,
                                    "TRANSCEIVER_INFO", thr.port_name,
                                    "present", "false")
                           ELSE redis
               /\ th' = [th EXCEPT ![t] =
                           IF ok THEN [thr EXCEPT !.pc = "sfp_lock_state"]
                           ELSE ReturnTop(thr, "false")]
    /\ UNCHANGED <<stateVars, logVars, handlerVars, mutexVars,
                   callers, pollerVars,
                   ncalls, pre>>

\* lock_guard lock(m_state_mutex); the m_sfp_info update; the PortEvent
SfpLockState(t) ==
    /\ th[t].pc = "sfp_lock_state"
    /\ m_state_mutex = NoThread
    /\ m_state_mutex' = t
    /\ LET thr == th[t]
           ins == thr.sub = "sfp_insertion"
       IN  /\ m_sfp_info' =
                 IF ins
                 THEN Put(m_sfp_info, thr.port_name, thr.sfp_info)
                 ELSE IF thr.port_name \in DOMAIN m_sfp_info
                 THEN [m_sfp_info EXCEPT ![thr.port_name].is_present = FALSE]
                 ELSE m_sfp_info
           /\ th' = [th EXCEPT ![t].pc = "lock_event",
                               ![t].event =
                                   [port_name |-> thr.port_name,
                                    event_type |-> IF ins THEN SFP_INSERTED
                                                   ELSE SFP_REMOVED,
                                    old_status |-> IF ins THEN "DOWN"
                                                   ELSE "UP",
                                    new_status |-> IF ins THEN "UP"
                                                   ELSE "DOWN"]]
    /\ UNCHANGED <<m_port_states, logVars, handlerVars, m_event_mutex,
                   m_handler_mutex, redis,
                   callers, pollerVars, ncalls, nfaults, pre>>

\* ---------------------------------------------------- handler registration
CanRegister(t) ==
    /\ t \in callers
    /\ th[t].pc = "idle"
    /\ ncalls < MaxCalls
    /\ m_handler_mutex = NoThread

\* m_event_handlers[event_type].push_back(handler)
RegisterEventHandler(t, event_type, behaviour) ==
    /\ CanRegister(t)
    /\ nreg' = nreg + 1
    /\ ncalls' = ncalls + 1
    /\ m_event_handlers' =
           Put(m_event_handlers, event_type,
               Append(SpecificHandlers(event_type),
                      [id |-> nreg + 1, behaviour |-> behaviour]))
    /\ UNCHANGED <<stateVars, logVars, m_global_handlers, mutexVars, redis,
                   th, callers, pollerVars, nfaults, pre>>

\* m_global_handlers.push_back(handler)
RegisterGlobalEventHandler(t, behaviour) ==
    /\ CanRegister(t)
    /\ nreg' = nreg + 1
    /\ ncalls' = ncalls + 1
    /\ m_global_handlers' =
           Append(m_global_handlers,
                  [id |-> nreg + 1, behaviour |-> behaviour])
    /\ UNCHANGED <<stateVars, logVars, m_event_handlers, mutexVars, redis,
                   th, callers, pollerVars, nfaults, pre>>

\* ------------------------------------------------------------ specification
\* triggerEvent, as every simulate operation runs it
TriggerEvent(t) ==
    \/ LockEvent(t)
    \/ LockHandler(t)
    \/ InvokeSpecificHandler(t)
    \/ EndSpecific(t)
    \/ InvokeGlobalHandler(t)
    \/ FinishTrigger(t)

\* the steps of simulateCableInsertion / simulateCableRemoval
CableSteps(t) ==
    \/ LockState(t)
    \/ WriteOperStatus(t)
    \/ WritePresent(t)
    \/ UpdateState(t)

Register(t) ==
    \/ \E k \in RegKinds, b \in HandlerBehaviours :
           RegisterEventHandler(t, k, b)
    \/ \E b \in HandlerBehaviours : RegisterGlobalEventHandler(t, b)

\* a driver that simulates cable events and link flaps
Next ==
    \E t \in Threads :
        \/ \E p \in PortNames : SimulateCableInsertion(t, p)
        \/ \E p \in PortNames : SimulateCableRemoval(t, p)
        \/ \E p \in PortNames, n \in FlapCounts : SimulateLinkFlap(t, p, n)
        \/ FlapLoop(t)
        \/ CableSteps(t)
        \/ TriggerEvent(t)
        \/ Register(t)

Spec == Init /\ [][Next]_vars

\* a driver that simulates cable events and transceiver hot-swap
NextSfp ==
    \E t \in Threads :
        \/ \E p \in PortNames : SimulateCableInsertion(t, p)
        \/ \E p \in PortNames : SimulateCableRemoval(t, p)
        \/ \E p \in PortNames, d \in SFPInfos : SimulateSFPInsertion(t, p, d)
        \/ \E p \in PortNames : SimulateSFPRemoval(t, p)
        \/ SfpInsertionWrite(t)
        \/ SfpRemovalWrite(t)
        \/ SfpLockState(t)
        \/ CableSteps(t)
        \/ TriggerEvent(t)
        \/ Register(t)

SpecSfp == Init /\ [][NextSfp]_vars


\* ------------------------------------------------------------------ claims
\* the names of PortNames that do not match ^Ethernet[0-9]+$
InvalidNames == {BareName, LowerName, SuffixName}

CableOps == {"insertion", "removal"}

\* thread t is back in the test driver with the result of its last call
Returned(t) == th[t].pc = "idle" /\ th[t].result # "none"

NoCallInFlight == \A t \in Threads : th[t].pc = "idle"

\* nothing the controller keeps locally differs from when t's call began
LocalUnchanged(t) ==
    /\ m_port_states = pre[t].m_port_states
    /\ m_sfp_info = pre[t].m_sfp_info
    /\ m_event_history = pre[t].m_event_history
    /\ m_event_statistics = pre[t].m_event_statistics
    /\ dispatched = pre[t].dispatched

OperStatusKey(p) == <<APPL_DB, "PORT_TABLE", p, "oper_status">>

\* C1: when an external write of simulateCableInsertion/Removal fails, the
\* call returns false, the LinkState map, the event log and the statistics
\* are as they were when the call began, and no handler has been invoked.
C1_WriteFailureLeavesLocalState ==
    \A t \in callers :
        (th[t].op \in CableOps /\ th[t].wfail) =>
            /\ Returned(t)
            /\ th[t].result = "false"
            /\ LocalUnchanged(t)

\* C1 witness: a removal whose second write failed, on a port that has a
\* LinkState entry, with an event logged and a handler registered
C1_Witness ==
    \E t \in callers :
        /\ Returned(t) /\ th[t].op = "removal" /\ th[t].wfail
        /\ th[t].nwrites = 2
        /\ th[t].port_name \in DOMAIN m_port_states
        /\ Len(m_event_history) > 0
        /\ nreg > 0

\* C2: whenever no call is in flight, the local oper_status of a port
\* equals the value last written successfully to its external oper_status.
C2_LocalMatchesExternal ==
    NoCallInFlight =>
        \A p \in PortNames :
            OperStatusKey(p) \in DOMAIN redis =>
                getPortLinkStateUnsafe(p).oper_status =
                    parseSONiCLinkStatus(redis[OperStatusKey(p)])

\* C3: the four single-event simulate operations, called with a name that
\* does not match the pattern, return false having issued no external
\* write and changed no LinkState, SFP entry, log entry, counter or handler
\* invocation.
C3_InvalidNameNoSideEffect ==
    \A t \in callers :
        (/\ th[t].op \in {"insertion", "removal", "sfp_insertion",
                          "sfp_removal"}
         /\ th[t].port_name \in InvalidNames) =>
            /\ Returned(t)
            /\ th[t].result = "false"
            /\ th[t].nwrites = 0
            /\ redis = pre[t].redis
            /\ LocalUnchanged(t)
            /\ m_state_mutex = NoThread

\* C3 witness: an SFP insertion on an invalid name has returned, after an
\* event was logged, a LinkState entry created and a handler registered
C3_Witness ==
    \E t \in callers :
        /\ Returned(t) /\ th[t].op = "sfp_insertion"
        /\ th[t].port_name \in InvalidNames
        /\ Len(m_event_history) > 0
        /\ m_port_states # EmptyMap
        /\ nreg > 0


\* ------------------------------------------------------- dispatch claims
DispatchPcs == {"lock_handler", "dispatch_specific", "dispatch_global"}

\* no thread is inside triggerEvent for the e-th logged event
DispatchOver(e) ==
    \A t \in Threads : ~(th[t].evidx = e /\ th[t].pc \in DispatchPcs)

Ids(handlers) == [k \in 1..Len(handlers) |-> handlers[k].id]

\* the handlers of `handlers` that were registered when event e was logged
RegisteredAt(e, handlers) ==
    LET Before(h) == h.id <= dispatched[e].nreg
    IN  SelectSeq(handlers, Before)

\* the order the specification prescribes for event e: the handlers of its
\* kind in registration order, then the global handlers in theirs
ExpectedCalls(e) ==
    Ids(RegisteredAt(e, SpecificHandlers(m_event_history[e].event_type)))
        \o Ids(RegisteredAt(e, m_global_handlers))

Range(seq) == {seq[k] : k \in 1..Len(seq)}

\* C4: for every published event the handlers invoked are exactly the
\* handlers of its kind in registration order followed by the global
\* handlers in registration order, each once.
C4_DispatchOrder ==
    \A e \in 1..Len(m_event_history) :
        DispatchOver(e) => dispatched[e].called = ExpectedCalls(e)

\* C5: a handler registered for kind K is invoked for an event iff the
\* event's kind is K, and a global handler is invoked for every event.
C5_KindFilter ==
    \A e \in 1..Len(m_event_history) :
        DispatchOver(e) =>
            /\ \A k \in DOMAIN m_event_handlers :
                 \A h \in Range(RegisteredAt(e, m_event_handlers[k])) :
                    (h.id \in Range(dispatched[e].called))
                        <=> (m_event_history[e].event_type = k)
            /\ \A h \in Range(RegisteredAt(e, m_global_handlers)) :
                    h.id \in Range(dispatched[e].called)

\* C6: whatever a handler raises, a cable operation whose writes succeeded
\* returns true with its event logged and its state change made, and
\* every handler after the raising one has been invoked.
C6_HandlerErrorIsolated ==
    \A t \in callers :
        (/\ Returned(t) /\ th[t].op \in CableOps /\ ~th[t].wfail
         /\ th[t].port_name \notin InvalidNames) =>
            /\ th[t].result = "true"
            /\ Len(m_event_history) = Len(pre[t].m_event_history) + 1
            /\ dispatched[Len(dispatched)].called =
                   ExpectedCalls(Len(dispatched))

\* the events the last call of t appended
NewEvents(t) ==
    (Len(pre[t].m_event_history) + 1)..Len(m_event_history)

\* C7: dispatch is synchronous: once a simulate operation has returned
\* true, every handler registered when its event was dispatched has run
\* for that event, and none runs for it afterwards.
C7_DispatchSynchronous ==
    \A t \in callers :
        (Returned(t) /\ th[t].result = "true") =>
            \A e \in NewEvents(t) :
                /\ DispatchOver(e)
                /\ dispatched[e].called = ExpectedCalls(e)

\* C7 witness: an insertion has returned true after a kind-specific and a
\* global handler both ran for its event
C7_Witness ==
    \E t \in callers :
        /\ Returned(t) /\ th[t].result = "true" /\ th[t].op = "insertion"
        /\ Len(SpecificHandlers(CABLE_INSERTED)) = 1
        /\ Len(m_global_handlers) = 1
        /\ Len(dispatched[Len(dispatched)].called) = 2


\* ---------------------------------------------------- round trip and flap
\* event e of the log is of `event_type` and for port p
IsEvent(e, event_type, p) ==
    /\ m_event_history[e].event_type = event_type
    /\ m_event_history[e].port_name = p

\* C8: an insertion on a fresh port (both counters 0) followed by a
\* removal, all writes succeeding, leaves the port DOWN locally and down
\* externally with link_up_count = link_down_count = 1.
C8_RoundTrip ==
    \A t \in callers :
        (/\ Returned(t) /\ th[t].op = "removal" /\ ~th[t].wfail
         /\ th[t].port_name \notin InvalidNames
         /\ Len(pre[t].m_event_history) = 1
         /\ pre[t].m_event_history[1].event_type = CABLE_INSERTED
         /\ pre[t].m_event_history[1].port_name = th[t].port_name) =>
            LET p == th[t].port_name
            IN  /\ p \in DOMAIN m_port_states
                /\ m_port_states[p].oper_status = "DOWN"
                /\ m_port_states[p].link_up_count = 1
                /\ m_port_states[p].link_down_count = 1
                /\ OperStatusKey(p) \in DOMAIN redis
                /\ redis[OperStatusKey(p)] = "down"

\* C8 witness: the removal of such a round trip has returned true
C8_Witness ==
    \E t \in callers :
        /\ Returned(t) /\ th[t].op = "removal" /\ th[t].result = "true"
        /\ Len(m_event_history) = 2
        /\ IsEvent(1, CABLE_INSERTED, th[t].port_name)
        /\ IsEvent(2, CABLE_REMOVED, th[t].port_name)

\* C9: simulateLinkFlap(P, n), n >= 1, all writes succeeding, returns
\* true, has appended 2n events for P alternating CableRemoved,
\* CableInserted, has raised both counters of P by n, and leaves P UP
\* locally and up externally.
C9_FlapCounting ==
    \A t \in callers :
        (/\ Returned(t) /\ th[t].op = "flap" /\ ~th[t].wfail
         /\ th[t].port_name \notin InvalidNames
         /\ th[t].flap_count >= 1) =>
            LET p == th[t].port_name
                n == th[t].flap_count
                base == Len(pre[t].m_event_history)
                was == IF p \in DOMAIN pre[t].m_port_states
                       THEN pre[t].m_port_states[p]
                       ELSE DefaultLinkState
            IN  /\ th[t].result = "true"
                /\ Len(m_event_history) = base + 2 * n
                /\ \A j \in 1..(2 * n) :
                     IsEvent(base + j,
                             IF j % 2 = 1 THEN CABLE_REMOVED
                             ELSE CABLE_INSERTED, p)
                /\ p \in DOMAIN m_port_states
                /\ m_port_states[p].link_up_count = was.link_up_count + n
                /\ m_port_states[p].link_down_count = was.link_down_count + n
                /\ m_port_states[p].oper_status = "UP"
                /\ OperStatusKey(p) \in DOMAIN redis
                /\ redis[OperStatusKey(p)] = "up"

\* C10: as soon as a sub-step of simulateLinkFlap fails, the flap has
\* returned false; the sub-steps before it keep their events and state
\* changes, the failing one adds none, and no later sub-step is attempted.
C10_FlapAbortsAtFailure ==
    \A t \in callers :
        (/\ th[t].op = "flap"
         /\ \/ th[t].wfail
            \/ th[t].result = "false") =>
            LET p == th[t].port_name
                \* sub-steps completed before the failing one
                done == 2 * th[t].i + (IF th[t].sub = "insertion" THEN 1 ELSE 0)
                removals == th[t].i + (IF th[t].sub = "insertion" THEN 1 ELSE 0)
                base == Len(pre[t].m_event_history)
                was == IF p \in DOMAIN pre[t].m_port_states
                       THEN pre[t].m_port_states[p]
                       ELSE DefaultLinkState
            IN  /\ Returned(t)
                /\ th[t].result = "false"
                /\ Len(m_event_history) = base + done
                /\ SubSeq(m_event_history, 1, base) = pre[t].m_event_history
                /\ \A j \in 1..done :
                     IsEvent(base + j,
                             IF j % 2 = 1 THEN CABLE_REMOVED
                             ELSE CABLE_INSERTED, p)
                /\ getPortLinkStateUnsafe(p) =
                     [was EXCEPT !.link_up_count = @ + th[t].i,
                                 !.link_down_count = @ + removals,
                                 !.oper_status =
                                     IF done = 0 THEN @
                                     ELSE IF th[t].sub = "insertion"
                                     THEN "DOWN" ELSE "UP"]
                /\ th[t].nwrites <= 2 * done + 2
                /\ th[t].wfail => th[t].nwrites > 2 * done

\* C10 witness: a flap of 2 has returned false in its third sub-step (the
\* second removal), with the two events of the first repetition logged
C10_Witness ==
    \E t \in callers :
        /\ Returned(t) /\ th[t].op = "flap" /\ th[t].result = "false"
        /\ th[t].wfail /\ th[t].flap_count = 2
        /\ th[t].i = 1 /\ th[t].sub = "removal"
        /\ Len(m_event_history) = Len(pre[t].m_event_history) + 2


\* ------------------------------------------- concurrent cable insertions
\* the ports two threads insert cables on at the same time
ConcPorts == {Ethernet0, Ethernet4}

\* two threads call the controller
InitConc ==
    /\ InitCommon
    /\ callers = Threads

NextConc ==
    \E t \in Threads :
        \/ \E p \in ConcPorts : SimulateCableInsertion(t, p)
        \/ CableSteps(t)
        \/ TriggerEvent(t)
        \/ Register(t)

SpecConc == InitConc /\ [][NextConc]_vars

\* the events of the log that are CableInserted events for port p
InsertedEvents(p) ==
    {e \in 1..Len(m_event_history) : IsEvent(e, CABLE_INSERTED, p)}

\* both threads have returned from an insertion, on distinct ports, that
\* began on a fresh controller and whose writes all succeeded
ConcurrentInsertionsDone ==
    /\ \A t \in Threads :
          /\ Returned(t) /\ th[t].op = "insertion" /\ ~th[t].wfail
          /\ th[t].port_name \in ConcPorts
          /\ pre[t].m_event_history = <<>>
    /\ th[1].port_name # th[2].port_name

\* C11: concurrent simulateCableInsertion calls on distinct valid ports,
\* all writes succeeding, all return true under every interleaving; each
\* publishes exactly one CableInserted event for its own port, every port
\* ends UP with link_up_count raised by exactly 1, and no call alters the
\* LinkState of the other port.
C11_ConcurrentInsertions ==
    ConcurrentInsertionsDone =>
        /\ \A t \in Threads : th[t].result = "true"
        /\ Len(m_event_history) = Cardinality(Threads)
        /\ \A t \in Threads :
              /\ Cardinality(InsertedEvents(th[t].port_name)) = 1
              /\ th[t].port_name \in DOMAIN m_port_states
              /\ m_port_states[th[t].port_name] =
                     InsertedState(DefaultLinkState)


\* ------------------------------------------------------- locks and I/O
\* the positions at which a thread is executing an external command
ExternalIOPcs ==
    {"write_oper_status", "write_present", "sfp_insertion_write",
     "sfp_removal_write", "refresh_keys", "refresh_port"}

HoldsLock(t) ==
    \/ m_state_mutex = t
    \/ m_event_mutex = t
    \/ m_handler_mutex = t

\* C12: no thread holds the State Store lock, the event-log lock or the
\* handler-registry lock while it performs an external read or write.
C12_NoLockAcrossIO ==
    \A t \in Threads : th[t].pc \in ExternalIOPcs => ~HoldsLock(t)


\* ---------------------------------- handlers that call the State Store
RegisterCallback(t) ==
    \/ \E k \in RegKinds, b \in CallbackBehaviours :
           RegisterEventHandler(t, k, b)
    \/ \E b \in CallbackBehaviours : RegisterGlobalEventHandler(t, b)

\* a driver whose handlers call getPortLinkState
NextCallback ==
    \E t \in Threads :
        \/ \E p \in PortNames : SimulateCableInsertion(t, p)
        \/ \E p \in PortNames : SimulateCableRemoval(t, p)
        \/ \E p \in PortNames, d \in SFPInfos : SimulateSFPInsertion(t, p, d)
        \/ \E p \in PortNames : SimulateSFPRemoval(t, p)
        \/ SfpInsertionWrite(t)
        \/ SfpRemovalWrite(t)
        \/ SfpLockState(t)
        \/ CableSteps(t)
        \/ TriggerEvent(t)
        \/ RegisterCallback(t)

SpecCallback == Init /\ [][NextCallback]_vars

\* C13: while handlers are dispatched for an event the dispatching thread
\* does not hold the State Store lock, and a handler that calls back into
\* the State Store returns: no thread is stuck in a handler.
C13_DispatchWithoutStateLock ==
    \A t \in Threads :
        /\ th[t].pc \in DispatchPcs => m_state_mutex # t
        /\ th[t].pc # "deadlock"


\* ---------------------------------------------------- Background Poller
\* a std::thread running monitoringLoop; joined once join() has returned
NewWorker == [pc |-> "loop", joined |-> FALSE]

\* m_monitor_thread && m_monitor_thread->joinable()
Joinable(handle) == handle # NoWorker /\ ~workers[handle].joined

\* stopEventMonitoring returns to cleanup() or to the driver
StopReturn(thr, res) ==
    IF thr.op = "cleanup"
    THEN [thr EXCEPT !.pc = "cleanup_finish"]
    ELSE ReturnTop(thr, res)

\* bool startEventMonitoring(): if (m_monitoring.load()) return true;
StartEventMonitoring(t) ==
    /\ CanCall(t) /\ ~terminated
    /\ ncalls' = ncalls + 1
    /\ pre' = [pre EXCEPT ![t] = Snapshot]
    /\ th' = [th EXCEPT ![t] =
                IF m_monitoring
                THEN ReturnTop(Begin(t, "start", "none", <<>>), "true")
                ELSE [Begin(t, "start", "none", <<>>)
                        EXCEPT !.pc = "start_store"]]
    /\ UNCHANGED <<stateVars, logVars, handlerVars, mutexVars, redis,
                   callers, pollerVars, nfaults>>

\* m_monitoring.store(true)
StartStore(t) ==
    /\ th[t].pc = "start_store" /\ ~terminated
    /\ m_monitoring' = TRUE
    /\ th' = [th EXCEPT ![t].pc = "start_spawn"]
    /\ UNCHANGED <<stateVars, logVars, handlerVars, mutexVars, redis,
                   callers, ncalls, nfaults, pre, m_initialized,
                   m_monitor_thread, workers, terminated>>

\* m_monitor_thread = std::make_unique<std::thread>(...): the new thread
\* runs; the std::thread the pointer held is destroyed, and destroying a
\* joinable std::thread calls std::terminate
StartSpawn(t) ==
    /\ th[t].pc = "start_spawn" /\ ~terminated
    /\ workers' = Append(workers, NewWorker)
    /\ m_monitor_thread' = Len(workers) + 1
    /\ terminated' = Joinable(m_monitor_thread)
    /\ th' = [th EXCEPT ![t] =
                ReturnTop([th[t] EXCEPT !.sub = "spawned"], "true")]
    /\ UNCHANGED <<stateVars, logVars, handlerVars, mutexVars, redis,
                   callers, ncalls, nfaults, pre, m_initialized,
                   m_monitoring>>

\* bool stopEventMonitoring(): if (!m_monitoring.load()) return true;
StopEventMonitoring(t) ==
    /\ CanCall(t) /\ ~terminated
    /\ ncalls' = ncalls + 1
    /\ pre' = [pre EXCEPT ![t] = Snapshot]
    /\ th' = [th EXCEPT ![t] =
                IF m_monitoring
                THEN [Begin(t, "stop", "none", <<>>)
                        EXCEPT !.pc = "stop_store"]
                ELSE ReturnTop(Begin(t, "stop", "none", <<>>), "true")]
    /\ UNCHANGED <<stateVars, logVars, handlerVars, mutexVars, redis,
                   callers, pollerVars, nfaults>>

\* a stop that never clears the flag
StopStoreKeepsFlag(flag) == flag

\* m_monitoring.store(false)
StopStore(flag) == FALSE

StopStoreStep(t) ==
    /\ th[t].pc = "stop_store" /\ ~terminated
    /\ m_monitoring' = StopStore(m_monitoring)
    /\ th' = [th EXCEPT ![t].pc = "stop_joinable"]
    /\ UNCHANGED <<stateVars, logVars, handlerVars, mutexVars, redis,
                   callers, ncalls, nfaults, pre, m_initialized,
                   m_monitor_thread, workers, terminated>>

\* if (m_monitor_thread && m_monitor_thread->joinable())
StopJoinable(t) ==
    /\ th[t].pc = "stop_joinable" /\ ~terminated
    /\ th' = [th EXCEPT ![t] =
                IF Joinable(m_monitor_thread)
                THEN [th[t] EXCEPT !.pc = "stop_join"]
                ELSE StopReturn(th[t], "true")]
    /\ UNCHANGED <<stateVars, logVars, handlerVars, mutexVars, redis,
                   callers, pollerVars, ncalls, nfaults, pre>>

\* what join() on a std::thread another caller has joined can do
RejoinOutcomes == {"throws_system_error", "returns"}

\* m_monitor_thread->join(): returns once the worker has exited
StopJoin(t) ==
    /\ th[t].pc = "stop_join" /\ ~terminated
    /\ m_monitor_thread # NoWorker
    /\ workers[m_monitor_thread].pc = "exited"
    /\ IF workers[m_monitor_thread].joined
       THEN /\ \E outcome \in RejoinOutcomes :
                 th' = [th EXCEPT ![t] =
                          IF outcome = "returns"
                          THEN StopReturn(th[t], "true")
                          ELSE Unwind(th[t])]
            /\ UNCHANGED workers
       ELSE /\ workers' = [workers EXCEPT ![m_monitor_thread].joined = TRUE]
            /\ th' = [th EXCEPT ![t] = StopReturn(th[t], "true")]
    /\ UNCHANGED <<stateVars, logVars, handlerVars, mutexVars, redis,
                   callers, ncalls, nfaults, pre, m_initialized,
                   m_monitoring, m_monitor_thread, terminated>>

\* bool isMonitoring() const
IsMonitoring(t) ==
    /\ CanCall(t) /\ ~terminated
    /\ ncalls' = ncalls + 1
    /\ pre' = [pre EXCEPT ![t] = Snapshot]
    /\ th' = [th EXCEPT ![t] =
                ReturnTop(Begin(t, "isMonitoring", "none", <<>>),
                          IF m_monitoring THEN "true" ELSE "false")]
    /\ UNCHANGED <<stateVars, logVars, handlerVars, mutexVars, redis,
                   callers, pollerVars, nfaults>>

\* while (m_monitoring.load())
WorkerLoop(w) ==
    /\ w \in 1..Len(workers) /\ ~terminated
    /\ workers[w].pc = "loop"
    /\ workers' = [workers EXCEPT ![w].pc =
                      IF m_monitoring THEN "detect" ELSE "exited"]
    /\ UNCHANGED <<stateVars, logVars, handlerVars, mutexVars, redis, th,
                   callers, ncalls, nfaults, pre, m_initialized,
                   m_monitoring, m_monitor_thread, terminated>>

\* detectPortChanges(): a placeholder that returns true
WorkerDetect(w) ==
    /\ w \in 1..Len(workers) /\ ~terminated
    /\ workers[w].pc = "detect"
    /\ workers' = [workers EXCEPT ![w].pc = "sleep"]
    /\ UNCHANGED <<stateVars, logVars, handlerVars, mutexVars, redis, th,
                   callers, ncalls, nfaults, pre, m_initialized,
                   m_monitoring, m_monitor_thread, terminated>>

\* std::this_thread::sleep_for(POLL_INTERVAL_MS)
WorkerSleep(w) ==
    /\ w \in 1..Len(workers) /\ ~terminated
    /\ workers[w].pc = "sleep"
    /\ workers' = [workers EXCEPT ![w].pc = "loop"]
    /\ UNCHANGED <<stateVars, logVars, handlerVars, mutexVars, redis, th,
                   callers, ncalls, nfaults, pre, m_initialized,
                   m_monitoring, m_monitor_thread, terminated>>

\* void monitoringLoop()
monitoringLoop(w) ==
    \/ WorkerLoop(w)
    \/ WorkerDetect(w)
    \/ WorkerSleep(w)


\* ------------------------------------------- initialize, refresh, cleanup
\* std::string getRedisHashField(key, field, db): the value, or "" when the
\* command fails or the field is absent
getRedisHashField(r, db, table, port_name, field, ok) ==
    IF ok /\ <<db, table, port_name, field>> \in DOMAIN r
    THEN r[<<db, table, port_name, field>>]
    ELSE ""

\* the lines KEYS "PORT|*" prints, without the "PORT|" prefix
KnownPorts(r) ==
    {k[3] : k \in {x \in DOMAIN r : x[1] = CONFIG_DB /\ x[2] = "PORT"}}

RECURSIVE SeqOf(_)
SeqOf(S) ==
    IF S = {} THEN <<>>
    ELSE LET x == CHOOSE y \in S : TRUE
         IN  <<x>> \o SeqOf(S \ {x})

\* an initialize that goes on whatever refreshPortStatusFromSONiC returned
RefreshReturnIgnoresFailure(thr, ok) ==
    IF thr.op = "initialize"
    THEN [thr EXCEPT !.pc = "init_finish"]
    ELSE ReturnTop(thr, IF ok THEN "true" ELSE "false")

\* refreshPortStatusFromSONiC returns ok to initialize() or to the driver:
\* if (!refreshPortStatusFromSONiC()) return false;
RefreshReturn(thr, ok) ==
    IF thr.op = "initialize"
    THEN IF ok THEN [thr EXCEPT !.pc = "init_finish"]
         ELSE ReturnTop(thr, "false")
    ELSE ReturnTop(thr, IF ok THEN "true" ELSE "false")

\* bool initialize()
Initialize(t) ==
    /\ CanCall(t) /\ ~terminated
    /\ ncalls' = ncalls + 1
    /\ pre' = [pre EXCEPT ![t] = Snapshot]
    /\ th' = [th EXCEPT ![t] =
                [Begin(t, "initialize", "none", <<>>)
                   EXCEPT !.pc = "init_connect"]]
    /\ UNCHANGED <<stateVars, logVars, handlerVars, mutexVars, redis,
                   callers, pollerVars, nfaults>>

\* if (!executeSONiCCommand("echo 'INTERRUPT_TEST'", output)) return false;
InitConnect(t) ==
    /\ th[t].pc = "init_connect"
    /\ \E ok \in WriteOutcomes :
        /\ nfaults' = IF ok THEN nfaults ELSE nfaults + 1
        /\ th' = [th EXCEPT ![t] =
                    IF ok
                    THEN [th[t] EXCEPT !.pc = "refresh_lock",
                                       !.nwrites = @ + 1]
                    ELSE ReturnTop([th[t] EXCEPT !.wfail = TRUE,
                                                 !.nwrites = @ + 1],
                                   "false")]
    /\ UNCHANGED <<stateVars, logVars, handlerVars, mutexVars, redis,
                   callers, pollerVars, ncalls, pre>>

\* bool refreshPortStatusFromSONiC()
RefreshPortStatusFromSONiC(t) ==
    /\ CanCall(t) /\ ~terminated
    /\ ncalls' = ncalls + 1
    /\ pre' = [pre EXCEPT ![t] = Snapshot]
    /\ th' = [th EXCEPT ![t] =
                [Begin(t, "refresh", "none", <<>>)
                   EXCEPT !.pc = "refresh_lock"]]
    /\ UNCHANGED <<stateVars, logVars, handlerVars, mutexVars, redis,
                   callers, pollerVars, nfaults>>

\* std::lock_guard lock(m_state_mutex); m_port_states.clear();
RefreshLock(t) ==
    /\ th[t].pc = "refresh_lock"
    /\ m_state_mutex = NoThread
    /\ m_state_mutex' = t
    /\ m_port_states' = EmptyMap
    /\ th' = [th EXCEPT ![t].pc = "refresh_keys"]
    /\ UNCHANGED <<m_sfp_info, logVars, handlerVars, m_event_mutex,
                   m_handler_mutex, redis, callers, pollerVars, ncalls,
                   nfaults, pre>>

\* if (!executeRedisCommand("KEYS \"PORT|*\"", 4, output)) return false;
RefreshKeys(t) ==
    /\ th[t].pc = "refresh_keys"
    /\ \E ok \in WriteOutcomes :
        /\ nfaults' = IF ok THEN nfaults ELSE nfaults + 1
        /\ IF ok
           THEN /\ th' = [th EXCEPT ![t].pc = "refresh_port",
                                    ![t].nwrites = @ + 1,
                                    ![t].ret = SeqOf(KnownPorts(redis))]
                /\ UNCHANGED m_state_mutex
           ELSE /\ th' = [th EXCEPT ![t] =
                            RefreshReturn([th[t] EXCEPT !.wfail = TRUE,
                                                        !.nwrites = @ + 1],
                                          FALSE)]
                /\ m_state_mutex' = NoThread
    /\ UNCHANGED <<stateVars, logVars, handlerVars, m_event_mutex,
                   m_handler_mutex, redis, callers, pollerVars, ncalls, pre>>

\* a refresh that takes oper_status from the admin_status field
RefreshedStateAdminOnly(admin_status, oper_status) ==
    [admin_status |-> parseSONiCLinkStatus(admin_status),
     oper_status |-> parseSONiCLinkStatus(admin_status),
     link_up_count |-> 0, link_down_count |-> 0]

\* the LinkState refreshPortStatusFromSONiC builds from the two fields
RefreshedState(admin_status, oper_status) ==
    [admin_status |-> parseSONiCLinkStatus(admin_status),
     oper_status |-> parseSONiCLinkStatus(oper_status),
     link_up_count |-> 0, link_down_count |-> 0]

\* one line of the KEYS output: the HGETs, m_port_states[port_name] = state
RefreshPort(t) ==
    /\ th[t].pc = "refresh_port"
    /\ th[t].ret # <<>>
    /\ \E admin_ok \in WriteOutcomes, oper_ok \in WriteOutcomes :
        LET port_name == Head(th[t].ret)
            failed == (IF admin_ok THEN 0 ELSE 1) + (IF oper_ok THEN 0 ELSE 1)
        IN  /\ nfaults + failed <= MaxFaults
            /\ nfaults' = nfaults + failed
            /\ m_port_states' =
                  Put(m_port_states, port_name,
                      RefreshedState(
                          getRedisHashField(redis, CONFIG_DB, "PORT",
                                            port_name, "admin_status",
                                            admin_ok),
                          getRedisHashField(redis, APPL_DB, "PORT_TABLE",
                                            port_name, "oper_status",
                                            oper_ok)))
            /\ th' = [th EXCEPT ![t].ret = Tail(@)]
    /\ UNCHANGED <<m_sfp_info, logVars, handlerVars, mutexVars, redis,
                   callers, pollerVars, ncalls, pre>>

\* the loop over the KEYS output ends: return true; the lock_guard releases
RefreshDone(t) ==
    /\ th[t].pc = "refresh_port"
    /\ th[t].ret = <<>>
    /\ m_state_mutex' = NoThread
    /\ th' = [th EXCEPT ![t] = RefreshReturn(th[t], TRUE)]
    /\ UNCHANGED <<stateVars, logVars, handlerVars, m_event_mutex,
                   m_handler_mutex, redis, callers, pollerVars, ncalls,
                   nfaults, pre>>

\* m_initialized = true; return true;
InitFinish(t) ==
    /\ th[t].pc = "init_finish"
    /\ m_initialized' = TRUE
    /\ th' = [th EXCEPT ![t] = ReturnTop(th[t], "true")]
    /\ UNCHANGED <<stateVars, logVars, handlerVars, mutexVars, redis,
                   callers, ncalls, nfaults, pre, m_monitoring,
                   m_monitor_thread, workers, terminated>>

\* void cleanup(): if (m_initialized) { stopEventMonitoring(); ... }
Cleanup(t) ==
    /\ CanCall(t) /\ ~terminated
    /\ ncalls' = ncalls + 1
    /\ pre' = [pre EXCEPT ![t] = Snapshot]
    /\ th' = [th EXCEPT ![t] =
                IF ~m_initialized
                THEN ReturnTop(Begin(t, "cleanup", "none", <<>>), "void")
                ELSE IF m_monitoring
                THEN [Begin(t, "cleanup", "none", <<>>)
                        EXCEPT !.pc = "stop_store"]
                ELSE [Begin(t, "cleanup", "none", <<>>)
                        EXCEPT !.pc = "cleanup_finish"]]
    /\ UNCHANGED <<stateVars, logVars, handlerVars, mutexVars, redis,
                   callers, pollerVars, nfaults>>

\* m_initialized = false;
CleanupFinish(t) ==
    /\ th[t].pc = "cleanup_finish"
    /\ m_initialized' = FALSE
    /\ th' = [th EXCEPT ![t] = ReturnTop(th[t], "void")]
    /\ UNCHANGED <<stateVars, logVars, handlerVars, mutexVars, redis,
                   callers, ncalls, nfaults, pre, m_monitoring,
                   m_monitor_thread, workers, terminated>>

\* ------------------------------------------------ lifecycle specifications
\* the external store holds the configuration of two ports, one of them up
ConfigDb ==
    Put(Put(Put(EmptyMap,
                <<CONFIG_DB, "PORT", Ethernet0, "admin_status">>, "up"),
            <<CONFIG_DB, "PORT", Ethernet4, "admin_status">>, "down"),
        <<APPL_DB, "PORT_TABLE", Ethernet0, "oper_status">>, "up")

InitPoller ==
    /\ redis = ConfigDb
    /\ InitLocal
    /\ callers = {1}

InitPoller2 ==
    /\ redis = ConfigDb
    /\ InitLocal
    /\ callers = Threads

\* the steps of a lifecycle call that is in flight
PollerSteps(t) ==
    \/ StartStore(t)
    \/ StartSpawn(t)
    \/ StopStoreStep(t)
    \/ StopJoinable(t)
    \/ StopJoin(t)
    \/ InitConnect(t)
    \/ RefreshLock(t)
    \/ RefreshKeys(t)
    \/ RefreshPort(t)
    \/ RefreshDone(t)
    \/ InitFinish(t)
    \/ CleanupFinish(t)

PollerCalls(t) ==
    \/ StartEventMonitoring(t)
    \/ StopEventMonitoring(t)
    \/ IsMonitoring(t)
    \/ Initialize(t)
    \/ RefreshPortStatusFromSONiC(t)
    \/ Cleanup(t)

NextPoller ==
    \/ \E t \in Threads : PollerCalls(t) \/ PollerSteps(t)
    \/ \E w \in 1..MaxCalls : monitoringLoop(w)

\* one driver thread
SpecPoller == InitPoller /\ [][NextPoller]_vars

\* every started call and every worker keeps being scheduled
FairPoller ==
    /\ SpecPoller
    /\ \A t \in Threads : WF_vars(PollerSteps(t))
    /\ \A w \in 1..MaxCalls : WF_vars(monitoringLoop(w))

\* two driver threads
SpecPoller2 == InitPoller2 /\ [][NextPoller]_vars


\* -------------------------------------------------------- poller claims
AllWorkersExited == \A w \in 1..Len(workers) : workers[w].pc = "exited"

InFlight(t, op) == th[t].op = op /\ th[t].pc # "idle"

\* C14: startEventMonitoring followed by stopEventMonitoring terminates
\* under every interleaving with the worker: a start in flight returns,
\* and a stop in flight returns true with the worker loop exited and
\* isMonitoring (m_monitoring) false.
C14_StartStopTerminates ==
    \A t \in Threads :
        /\ InFlight(t, "start") ~> (Returned(t) /\ th[t].result = "true")
        /\ InFlight(t, "stop") ~>
              (/\ Returned(t) /\ th[t].result = "true"
               /\ ~m_monitoring
               /\ AllWorkersExited)

\* C14 witness: start, then stop at once, has returned; the one worker
\* was joined
C14_Witness ==
    \E t \in callers :
        /\ Returned(t) /\ th[t].op = "stop" /\ th[t].result = "true"
        /\ ncalls = 2
        /\ Len(workers) = 1 /\ workers[1].joined
        /\ ~m_monitoring

\* C15: whenever a call to stopEventMonitoring has returned - a first, a
\* repeated or a concurrent one - it has returned true and every worker
\* that existed when the call began has exited.
C15_StopJoinsWorker ==
    \A t \in callers :
        (Returned(t) /\ th[t].op = "stop") =>
            /\ th[t].result = "true"
            /\ \A w \in 1..pre[t].nworkers : workers[w].pc = "exited"

\* C16: under any interleaving of start and stop calls at most one worker
\* runs at any time, no std::thread is discarded before it was joined, and
\* a start that finds monitoring active spawns no worker.
C16_SingleWorker ==
    /\ Cardinality({w \in 1..Len(workers) : workers[w].pc # "exited"}) <= 1
    /\ ~terminated
    /\ \A w \in 1..Len(workers) :
          w # m_monitor_thread => workers[w].joined
    /\ \A t \in callers :
          (Returned(t) /\ th[t].op = "start" /\ pre[t].m_monitoring) =>
              th[t].sub # "spawned"


\* --------------------------------------------------- initialize claims
\* C17: if the connectivity check or the bulk refresh fails, initialize
\* returns false and the call does not mark the controller initialized;
\* the flag is set only when initialize returns true, which it does only
\* after a refresh that succeeded and stored every known port.
C17_InitializeNeedsRefresh ==
    \A t \in callers :
        th[t].op = "initialize" =>
            /\ th[t].wfail =>
                  /\ Returned(t) /\ th[t].result = "false"
                  /\ m_initialized = pre[t].m_initialized
            /\ ~Returned(t) => m_initialized = pre[t].m_initialized
            /\ (Returned(t) /\ th[t].result = "true") =>
                  /\ ~th[t].wfail
                  /\ m_initialized
                  /\ DOMAIN m_port_states = KnownPorts(redis)

\* C17 witness: the first initialize has returned false because the KEYS
\* command of the refresh failed after the connectivity check passed
C17_Witness ==
    \E t \in callers :
        /\ Returned(t) /\ th[t].op = "initialize"
        /\ th[t].result = "false" /\ th[t].wfail /\ th[t].nwrites = 2
        /\ ncalls = 1
        /\ ~m_initialized


\* ------------------------------------------------- queries and verifier
\* the ports callers query; Ethernet4 never gets an entry here
QueryPorts == {Ethernet0, Ethernet4}

\* a default descriptor that reports a transceiver as present
getSFPInfoPresent(port_name) ==
    IF port_name \in DOMAIN m_sfp_info
    THEN m_sfp_info[port_name]
    ELSE [DefaultSFPInfo EXCEPT !.is_present = TRUE]

\* SFPInfo getSFPInfo(port_name): the entry, or default_sfp
getSFPInfo(port_name) ==
    IF port_name \in DOMAIN m_sfp_info
    THEN m_sfp_info[port_name]
    ELSE DefaultSFPInfo

\* a query: lock_guard lock(m_state_mutex), copy, return
Query(t, op, port_name, value) ==
    /\ CanCall(t)
    /\ m_state_mutex = NoThread
    /\ ncalls' = ncalls + 1
    /\ pre' = [pre EXCEPT ![t] = Snapshot]
    /\ th' = [th EXCEPT ![t] =
                ReturnTop([Begin(t, op, "none", port_name)
                             EXCEPT !.ret = value], "returned")]
    /\ UNCHANGED <<stateVars, logVars, handlerVars, mutexVars, redis,
                   callers, pollerVars, nfaults>>

\* LinkState getPortLinkState(port_name)
GetPortLinkState(t, port_name) ==
    Query(t, "getPortLinkState", port_name,
          getPortLinkStateUnsafe(port_name))

\* std::vector<LinkState> getAllPortStates()
GetAllPortStates(t) ==
    Query(t, "getAllPortStates", <<>>, m_port_states)

\* SFPInfo getSFPInfo(port_name)
GetSFPInfo(t, port_name) ==
    Query(t, "getSFPInfo", port_name, getSFPInfo(port_name))

\* bool verifySONiCPortStatus(port_name, expected_status): one HGET, which
\* may fail, parsed and compared
VerifySONiCPortStatus(t, port_name, expected_status) ==
    /\ CanCall(t)
    /\ ncalls' = ncalls + 1
    /\ pre' = [pre EXCEPT ![t] = Snapshot]
    /\ \E ok \in WriteOutcomes :
        /\ nfaults' = IF ok THEN nfaults ELSE nfaults + 1
        /\ LET oper_status ==
                   getRedisHashField(redis, APPL_DB, "PORT_TABLE",
                                     port_name, "oper_status", ok)
               actual_status == parseSONiCLinkStatus(oper_status)
           IN  th' = [th EXCEPT ![t] =
                        ReturnTop([Begin(t, "verify", "none", port_name)
                                     EXCEPT !.expected = expected_status,
                                            !.wfail = ~ok,
                                            !.nwrites = 1],
                                  IF actual_status = expected_status
                                  THEN "true" ELSE "false")]
    /\ UNCHANGED <<stateVars, logVars, handlerVars, mutexVars, redis,
                   callers, pollerVars>>

\* a driver that simulates cable events, queries the State Store and
\* verifies against the external source
NextQuery ==
    \E t \in Threads :
        \/ \E p \in PortNames : SimulateCableInsertion(t, p)
        \/ \E p \in PortNames : SimulateCableRemoval(t, p)
        \/ CableSteps(t)
        \/ TriggerEvent(t)
        \/ RegisterCallback(t)
        \/ \E p \in QueryPorts : GetPortLinkState(t, p)
        \/ GetAllPortStates(t)
        \/ \E p \in QueryPorts : GetSFPInfo(t, p)
        \/ \E p \in QueryPorts, e \in LinkStatus :
               VerifySONiCPortStatus(t, p, e)

SpecQuery == Init /\ [][NextQuery]_vars


\* ------------------------------------------------------- query claims
\* the oper_status the external source holds for port p ("" when absent)
HeldOperStatus(p) ==
    IF OperStatusKey(p) \in DOMAIN redis THEN redis[OperStatusKey(p)] ELSE ""

\* C18: verifySONiCPortStatus(P, expected) returns true iff the
\* oper_status the external source holds for P parses to expected, and
\* the call changes no local state, log entry or external field.
C18_VerifyReadsExternal ==
    \A t \in callers :
        (Returned(t) /\ th[t].op = "verify") =>
            /\ (th[t].result = "true") <=>
                  (parseSONiCLinkStatus(HeldOperStatus(th[t].port_name))
                      = th[t].expected)
            /\ LocalUnchanged(t)
            /\ redis = pre[t].redis

\* C19: for a port with no entry, getPortLinkState returns UNKNOWN,
\* UNKNOWN, 0, 0 and getSFPInfo returns a not-present descriptor; neither
\* creates an entry nor changes any state, so a repeated read returns
\* the same and getAllPortStates is unaffected.
C19_UnknownPortDefaults ==
    \A t \in callers :
        /\ (/\ Returned(t) /\ th[t].op = "getPortLinkState"
            /\ th[t].port_name \notin DOMAIN pre[t].m_port_states) =>
               /\ th[t].ret = [admin_status |-> "UNKNOWN",
                               oper_status |-> "UNKNOWN",
                               link_up_count |-> 0, link_down_count |-> 0]
               /\ th[t].ret = getPortLinkStateUnsafe(th[t].port_name)
               /\ LocalUnchanged(t)
               /\ redis = pre[t].redis
        /\ (/\ Returned(t) /\ th[t].op = "getSFPInfo"
            /\ th[t].port_name \notin DOMAIN pre[t].m_sfp_info) =>
               /\ th[t].ret.is_present = FALSE
               /\ th[t].ret = getSFPInfo(th[t].port_name)
               /\ LocalUnchanged(t)
               /\ redis = pre[t].redis

\* C19 witness: getSFPInfo has returned for a port without an SFP entry
\* while another port has a LinkState entry
C19_Witness ==
    \E t \in callers :
        /\ Returned(t) /\ th[t].op = "getSFPInfo"
        /\ th[t].port_name = Ethernet4
        /\ th[t].port_name \notin DOMAIN m_sfp_info
        /\ Ethernet0 \in DOMAIN m_port_states


\* ----------------------------------------------------- counter claims
\* the LinkState `states` holds for p, the default when it holds none
LinkStateIn(states, p) ==
    IF p \in DOMAIN states THEN states[p] ELSE DefaultLinkState

\* C20: in every step link_up_count of a port rises by exactly 1 if the
\* step changes its oper_status from a non-UP value to UP and is unchanged
\* otherwise; link_down_count likewise for changes from non-DOWN to DOWN.
C20_CountersCountTransitions ==
    [][\A p \in PortNames \cup ConcPorts :
          LET old == LinkStateIn(m_port_states, p)
              new == LinkStateIn(m_port_states', p)
          IN  /\ new.link_up_count = old.link_up_count +
                    (IF old.oper_status # "UP" /\ new.oper_status = "UP"
                     THEN 1 ELSE 0)
              /\ new.link_down_count = old.link_down_count +
                    (IF old.oper_status # "DOWN" /\ new.oper_status = "DOWN"
                     THEN 1 ELSE 0)]_vars


\* ------------------------------------------ cable events and the refresh
\* the steps of refreshPortStatusFromSONiC and of initialize
RefreshSteps(t) ==
    \/ InitConnect(t)
    \/ RefreshLock(t)
    \/ RefreshKeys(t)
    \/ RefreshPort(t)
    \/ RefreshDone(t)
    \/ InitFinish(t)

\* a driver that simulates cable events and refreshes from the external
\* source
NextRefresh ==
    \E t \in Threads :
        \/ \E p \in PortNames : SimulateCableInsertion(t, p)
        \/ \E p \in PortNames : SimulateCableRemoval(t, p)
        \/ CableSteps(t)
        \/ TriggerEvent(t)
        \/ Register(t)
        \/ Initialize(t)
        \/ RefreshPortStatusFromSONiC(t)
        \/ RefreshSteps(t)

SpecRefresh == InitPoller /\ [][NextRefresh]_vars

\* C21: link_up_count and link_down_count of a port are never lower after
\* a public operation than they were when the operation began.
C21_CountersNeverDecrease ==
    \A t \in callers :
        Returned(t) =>
            \A p \in PortNames \cup ConcPorts :
                LET old == LinkStateIn(pre[t].m_port_states, p)
                    new == LinkStateIn(m_port_states, p)
                IN  /\ new.link_up_count >= old.link_up_count
                    /\ new.link_down_count >= old.link_down_count

\* the ports a cable event has been logged for: each got its LinkState
\* entry when that event was committed
PortsWithCableEvent ==
    {m_event_history[e].port_name :
        e \in {x \in 1..Len(m_event_history) :
                  m_event_history[x].event_type
                      \in {CABLE_INSERTED, CABLE_REMOVED}}}

\* C22: a port that has had a LinkState entry has one in every later
\* state in which the State Store can be read; no operation, a successful
\* or failed refresh included, removes it.
C22_LinkStateNeverRemoved ==
    m_state_mutex = NoThread =>
        /\ PortsWithCableEvent \subseteq DOMAIN m_port_states
        /\ \A t \in callers :
              Returned(t) =>
                  DOMAIN pre[t].m_port_states \subseteq DOMAIN m_port_states


\* ------------------------------------------- effects of a cable operation
PresentKey(p) == <<STATE_DB, "TRANSCEIVER_INFO", p, "present">>

\* the external store holds `value` under `key`
Holds(key, value) == key \in DOMAIN redis /\ redis[key] = value

\* C23: after a successful simulateCableInsertion(P) the external
\* oper_status of P is up, its external present field is true, its local
\* oper_status is UP and exactly one CableInserted event for P with
\* new_status UP was appended; after a successful simulateCableRemoval(P)
\* the same with down, false, DOWN and CableRemoved.
C23_CableOperationEffects ==
    \A t \in callers :
        (Returned(t) /\ th[t].op \in CableOps /\ th[t].result = "true") =>
            LET p == th[t].port_name
                ins == th[t].op = "insertion"
                last == Len(m_event_history)
            IN  /\ Holds(OperStatusKey(p), IF ins THEN "up" ELSE "down")
                /\ Holds(PresentKey(p), IF ins THEN "true" ELSE "false")
                /\ p \in DOMAIN m_port_states
                /\ m_port_states[p].oper_status =
                       (IF ins THEN "UP" ELSE "DOWN")
                /\ last = Len(pre[t].m_event_history) + 1
                /\ SubSeq(m_event_history, 1, last - 1) =
                       pre[t].m_event_history
                /\ IsEvent(last, IF ins THEN CABLE_INSERTED
                                 ELSE CABLE_REMOVED, p)
                /\ m_event_history[last].new_status =
                       (IF ins THEN "UP" ELSE "DOWN")

\* C23 witness: a removal has returned true on a port that was UP
C23_Witness ==
    \E t \in callers :
        /\ Returned(t) /\ th[t].op = "removal" /\ th[t].result = "true"
        /\ LinkStateIn(pre[t].m_port_states, th[t].port_name).oper_status
              = "UP"
        /\ m_port_states[th[t].port_name].oper_status = "DOWN"


\* ------------------------------------------------------------ SFP claims
SfpOps == {"sfp_insertion", "sfp_removal"}

\* C24: if an external write of simulateSFPInsertion or the write of
\* simulateSFPRemoval fails, the operation returns false (an insertion
\* after it has issued its remaining writes), the SFP map is unchanged
\* and no event is logged, counted or dispatched.
C24_SfpWriteFailure ==
    \A t \in callers :
        (th[t].op \in SfpOps /\ th[t].wfail) =>
            /\ LocalUnchanged(t)
            /\ \/ Returned(t) /\ th[t].result = "false"
               \/ th[t].op = "sfp_insertion"
                    /\ th[t].pc = "sfp_insertion_write"

\* C24 witness: an SFP insertion whose second write failed has issued all
\* four writes and returned, on a controller that holds an SFP entry
C24_Witness ==
    \E t \in callers :
        /\ Returned(t) /\ th[t].op = "sfp_insertion" /\ th[t].wfail
        /\ th[t].nwrites = 4
        /\ <<STATE_DB, "TRANSCEIVER_INFO", th[t].port_name, "vendor_name">>
              \notin DOMAIN redis
        /\ Holds(<<STATE_DB, "TRANSCEIVER_INFO", th[t].port_name,
                   "serial_number">>, th[t].sfp_info.serial_number)
        /\ Len(m_event_history) > 0

\* C25: after a successful simulateSFPInsertion(P, d), for any d,
\* getSFPInfo(P) reports present = true, as the external present field
\* does, with d's vendor, part number and serial number; after a
\* successful simulateSFPRemoval(P) it reports present = false.
C25_SfpInfoAfterOperation ==
    \A t \in callers :
        (Returned(t) /\ th[t].op \in SfpOps /\ th[t].result = "true") =>
            LET p == th[t].port_name
                d == th[t].sfp_info
            IN  IF th[t].op = "sfp_insertion"
                THEN /\ Holds(PresentKey(p), "true")
                     /\ getSFPInfo(p).is_present = TRUE
                     /\ getSFPInfo(p).vendor_name = d.vendor_name
                     /\ getSFPInfo(p).part_number = d.part_number
                     /\ getSFPInfo(p).serial_number = d.serial_number
                ELSE /\ Holds(PresentKey(p), "false")
                     /\ getSFPInfo(p).is_present = FALSE


\* ----------------------------- concurrent cable events on the same port
\* two threads insert and remove the cable of one port
NextRace ==
    \E t \in Threads :
        \/ SimulateCableInsertion(t, Ethernet0)
        \/ SimulateCableRemoval(t, Ethernet0)
        \/ CableSteps(t)
        \/ TriggerEvent(t)
        \/ Register(t)

SpecRace == InitConc /\ [][NextRace]_vars

\* the running count `stats` holds for an event kind, 0 when it has none
StatOf(stats, event_type) ==
    IF cableEventToString(event_type) \in DOMAIN stats
    THEN stats[cableEventToString(event_type)]
    ELSE 0

EventsOfKind(event_type) ==
    {e \in 1..Len(m_event_history) :
        m_event_history[e].event_type = event_type}

\* C26: whenever no publish is in progress the statistics counter of each
\* event kind equals the number of events of that kind in the log, and no
\* step lowers a counter, under every interleaving of concurrent simulate
\* operations.
C26_StatisticsMatchLog ==
    /\ [](m_event_mutex = NoThread =>
            \A k \in CableEvent :
                StatOf(m_event_statistics, k) = Cardinality(EventsOfKind(k)))
    /\ [][\A k \in CableEvent :
              StatOf(m_event_statistics', k) >= StatOf(m_event_statistics, k)
         ]_vars

\* C26 witness: two events of one kind, published by different threads,
\* have been counted, and a third call is in flight
C26_Witness ==
    /\ m_event_mutex = NoThread
    /\ Cardinality(EventsOfKind(CABLE_REMOVED)) = 2
    /\ \A t \in Threads : th[t].op = "removal"
    /\ \E t \in Threads : th[t].pc = "write_present"


\* the operations that publish one event when they succeed
SingleEventOps == CableOps \cup SfpOps

\* C27: the event log is append-only under simulate operations: a returned
\* single-event operation left the earlier events in place, appended
\* exactly one event if it returned true and none otherwise, so the log
\* grows by one per successfully completed operation.
C27_LogAppendOnly ==
    \A t \in callers :
        (Returned(t) /\ th[t].op \in SingleEventOps) =>
            LET before == pre[t].m_event_history
            IN  /\ Len(m_event_history) >= Len(before)
                /\ SubSeq(m_event_history, 1, Len(before)) = before
                /\ Len(m_event_history) = Len(before) +
                        (IF th[t].result = "true" THEN 1 ELSE 0)

\* C28: every published event, SfpInserted and SfpRemoved included,
\* carries as old_status the oper_status the port's LinkState had just
\* before the operation committed, UNKNOWN when the port had no entry.
C28_OldStatusFromStateStore ==
    \A t \in callers :
        th[t].op \in SingleEventOps =>
            \A e \in NewEvents(t) :
                m_event_history[e].old_status =
                    LinkStateIn(pre[t].m_port_states,
                                m_event_history[e].port_name).oper_status


\* t's cable operation has read old_status and has not yet made its
\* local State Store update
BetweenReadAndUpdate(t) ==
    /\ th[t].sub \in CableOps
    /\ th[t].pc \in {"write_oper_status", "write_present", "update_state"}

\* u's cable operation is about to issue an external write
AtExternalWrite(u) ==
    /\ th[u].sub \in CableOps
    /\ th[u].pc \in {"write_oper_status", "write_present"}

\* one call's external write falls between the other call's read of
\* old_status and its local update, on the same port
WriteInsideOtherCall ==
    \E t, u \in Threads :
        /\ t # u
        /\ th[t].port_name = th[u].port_name
        /\ BetweenReadAndUpdate(t)
        /\ AtExternalWrite(u)

\* the calls on one port exclude each other from the read of old_status
\* to the return
SamePortSerialized == ~WriteInsideOtherCall

\* C29: a simulateCableInsertion and a simulateCableRemoval running
\* concurrently on the same port are not serialized end to end: while one
\* call is between its read of old_status and its local update, the other
\* call is not held back and goes on to its own read and external writes.
C29_SamePortNotSerialized ==
    \A t, u \in Threads :
        (/\ t # u
         /\ BetweenReadAndUpdate(t)
         /\ th[u].sub \in CableOps
         /\ th[u].port_name = th[t].port_name
         /\ th[u].pc = "lock_state")
            => ENABLED LockState(u)


\* ------------------------------- handlers that register further handlers
RegisterRegistering(t) ==
    \/ \E k \in RegKinds, b \in RegisteringBehaviours :
           RegisterEventHandler(t, k, b)
    \/ \E b \in RegisteringBehaviours : RegisterGlobalEventHandler(t, b)

\* a driver whose handlers call registerEventHandler and
\* registerGlobalEventHandler
NextRegister ==
    \E t \in Threads :
        \/ \E p \in PortNames : SimulateCableInsertion(t, p)
        \/ \E p \in PortNames : SimulateCableRemoval(t, p)
        \/ CableSteps(t)
        \/ TriggerEvent(t)
        \/ RegisterRegistering(t)

SpecRegister == Init /\ [][NextRegister]_vars

\* the handler the dispatch loop of thread t is about to call
CurrentHandler(t) ==
    IF th[t].pc = "dispatch_specific"
    THEN SpecificHandlers(th[t].event.event_type)[th[t].idx]
    ELSE m_global_handlers[th[t].idx]

\* this step is thread t calling a handler
CallsHandler(t) ==
    /\ th[t].pc \in {"dispatch_specific", "dispatch_global"}
    /\ Len(dispatched'[th[t].evidx].called) =
           Len(dispatched[th[t].evidx].called) + 1

\* the handler with identity id is the last one of its list
StoredLast(id) ==
    \/ /\ m_global_handlers' # <<>>
       /\ m_global_handlers'[Len(m_global_handlers')].id = id
       /\ SubSeq(m_global_handlers', 1, Len(m_global_handlers)) =
              m_global_handlers
    \/ \E k \in DOMAIN m_event_handlers' :
          LET new == m_event_handlers'[k]
              old == SpecificHandlers(k)
          IN  /\ new # <<>>
              /\ new[Len(new)].id = id
              /\ SubSeq(new, 1, Len(old)) = old

\* C30: registerEventHandler and registerGlobalEventHandler return without
\* failing in every state, also when a handler running inside the dispatch
\* of an event calls them, and the new handler is stored after all earlier
\* handlers of its key.
C30_RegistrationAlwaysSucceeds ==
    [][/\ nreg' = nreg + 1 => StoredLast(nreg + 1)
       /\ \A t \in Threads :
             (CallsHandler(t) /\ Registers(CurrentHandler(t))) =>
                 /\ th'[t].pc # "deadlock"
                 /\ \/ Len(m_global_handlers') = Len(m_global_handlers) + 1
                    \/ \E k \in DOMAIN m_event_handlers' :
                          Len(m_event_handlers'[k]) =
                              Len(SpecificHandlers(k)) + 1
      ]_vars


\* C31: simulateLinkFlap(port, n) on a port identifier that does not match
\* the naming pattern returns false and changes nothing, locally or
\* externally, for every n, n <= 0 included.
C31_FlapInvalidNameFails ==
    \A t \in callers :
        (/\ Returned(t) /\ th[t].op = "flap"
         /\ th[t].port_name \in InvalidNames) =>
            /\ th[t].result = "false"
            /\ th[t].nwrites = 0
            /\ redis = pre[t].redis
            /\ LocalUnchanged(t)


\* C32: verifySONiCPortStatus never reports a match when the external
\* read of oper_status fails or returns nothing, whatever status is
\* expected, UNKNOWN included.
C32_FailedReadNeverMatches ==
    \A t \in callers :
        (/\ Returned(t) /\ th[t].op = "verify"
         /\ \/ th[t].wfail
            \/ HeldOperStatus(th[t].port_name) = "") =>
            th[t].result = "false"


\* ------------------------- concurrent simulations, registrations, queries
\* the steps a started simulate operation of thread t goes on to take
MixedSteps(t) ==
    \/ CableSteps(t)
    \/ SfpInsertionWrite(t)
    \/ SfpRemovalWrite(t)
    \/ SfpLockState(t)
    \/ TriggerEvent(t)

\* two threads simulate cable and transceiver events on the same or on
\* different ports, register a handler that returns without calling the
\* controller, and query the State Store
NextMixed ==
    \E t \in Threads :
        \/ SimulateCableInsertion(t, Ethernet0)
        \/ SimulateCableRemoval(t, Ethernet4)
        \/ SimulateSFPInsertion(t, Ethernet0, DefaultSFPInfo)
        \/ SimulateSFPRemoval(t, Ethernet0)
        \/ MixedSteps(t)
        \/ RegisterEventHandler(t, CABLE_INSERTED, "returns")
        \/ RegisterGlobalEventHandler(t, "returns")
        \/ GetPortLinkState(t, Ethernet0)

SpecMixed == InitConc /\ [][NextMixed]_vars

\* every started call keeps being scheduled
FairMixed ==
    /\ SpecMixed
    /\ \A t \in Threads : WF_vars(MixedSteps(t))

\* thread t takes mutex `after` in this step while it owns `before`
TakesWhileOwning(t, after, before) ==
    /\ after' = t
    /\ after # t
    /\ before = t

\* C33: with handlers that do not call back into the controller, every
\* interleaving of concurrent simulate operations, registrations and
\* queries is deadlock-free: no thread takes the State Store lock while
\* it owns the event-log or handler lock, nor the event-log lock while it
\* owns the handler lock, and every call in flight eventually returns.
C33_DeadlockFree ==
    /\ [][\A t \in Threads :
              /\ ~TakesWhileOwning(t, m_state_mutex, m_event_mutex)
              /\ ~TakesWhileOwning(t, m_state_mutex, m_handler_mutex)
              /\ ~TakesWhileOwning(t, m_event_mutex, m_handler_mutex)
         ]_vars
    /\ \A t \in Threads : (th[t].pc # "idle") ~> (th[t].pc = "idle")

\* C33 witness: one thread dispatches holding all three locks while the
\* other waits for the State Store lock on the same port
C33_Witness ==
    \E t, u \in Threads :
        /\ t # u
        /\ th[t].pc = "dispatch_global"
        /\ m_state_mutex = t /\ m_event_mutex = t /\ m_handler_mutex = t
        /\ th[u].pc \in {"lock_state", "sfp_lock_state"}
        /\ th[u].port_name = th[t].port_name


\* ------------------------- concurrent transceiver events on the same port
\* descriptors of a transceiver that is present
PresentSFPInfos == {d \in SFPInfos : d.is_present}

\* two threads insert and remove the transceiver of one port, with
\* handlers registered for the event
NextSfpRace ==
    \E t \in Threads :
        \/ \E d \in PresentSFPInfos : SimulateSFPInsertion(t, Ethernet0, d)
        \/ SimulateSFPRemoval(t, Ethernet0)
        \/ SfpInsertionWrite(t)
        \/ SfpRemovalWrite(t)
        \/ SfpLockState(t)
        \/ TriggerEvent(t)
        \/ RegisterEventHandler(t, SFP_INSERTED, "returns")
        \/ RegisterGlobalEventHandler(t, "returns")

SpecSfpRace == InitConc /\ [][NextSfpRace]_vars

\* C34: after a simulateSFPInsertion and a simulateSFPRemoval running
\* concurrently on the same port have both returned true, the present
\* flag of the local SFP descriptor equals the external present field.
C34_SfpPresentAgreesAfterRace ==
    \A t, u \in Threads :
        (/\ Returned(t) /\ th[t].op = "sfp_insertion"
         /\ Returned(u) /\ th[u].op = "sfp_removal"
         /\ th[t].result = "true" /\ th[u].result = "true"
         /\ th[t].port_name = th[u].port_name) =>
            (getSFPInfo(th[t].port_name).is_present
                <=> Holds(PresentKey(th[t].port_name), "true"))


\* --------------------------- concurrent cable events on one or two ports
\* two threads insert and remove cables on the same or on different ports
NextCables ==
    \E t \in Threads :
        \/ \E p \in ConcPorts : SimulateCableInsertion(t, p)
        \/ \E p \in ConcPorts : SimulateCableRemoval(t, p)
        \/ CableSteps(t)
        \/ TriggerEvent(t)
        \/ Register(t)

SpecCables == InitConc /\ [][NextCables]_vars

\* the positions in the log of the CableInserted/CableRemoved events of p
CableEventsOf(p) ==
    {e \in 1..Len(m_event_history) :
        /\ m_event_history[e].port_name = p
        /\ m_event_history[e].event_type \in {CABLE_INSERTED, CABLE_REMOVED}}

\* the largest element of a non-empty set of positions
Latest(S) == CHOOSE e \in S : \A x \in S : x <= e

\* C35: without a refresh, whenever no simulate call is in flight, the
\* new_status of the most recent CableInserted/CableRemoved log entry of a
\* port equals the port's local oper_status, under any interleaving of
\* concurrent cable operations.
C35_LatestEventMatchesState ==
    NoCallInFlight =>
        \A p \in ConcPorts :
            CableEventsOf(p) # {} =>
                m_event_history[Latest(CableEventsOf(p))].new_status =
                    getPortLinkStateUnsafe(p).oper_status

\* C35 witness: both threads have worked on the same port, the log ends
\* with an insertion after a removal, and the port is UP
C35_Witness ==
    /\ NoCallInFlight
    /\ \A t \in Threads : th[t].port_name = Ethernet0 /\ th[t].op \in CableOps
    /\ th[1].op # th[2].op
    /\ Cardinality(CableEventsOf(Ethernet0)) >= 2
    /\ m_event_history[Latest(CableEventsOf(Ethernet0))].event_type
           = CABLE_INSERTED
    /\ getPortLinkStateUnsafe(Ethernet0).oper_status = "UP"

\* the positions in the log of the events of kind event_type for port p
EventsOfKindFor(p, event_type) ==
    {e \in 1..Len(m_event_history) :
        /\ m_event_history[e].port_name = p
        /\ m_event_history[e].event_type = event_type}

\* C36: without a refresh, whenever no simulate call is in flight,
\* link_up_count of a port equals the number of CableInserted events
\* logged for it and link_down_count the number of CableRemoved events.
C36_CountersMatchLog ==
    NoCallInFlight =>
        \A p \in ConcPorts :
            /\ getPortLinkStateUnsafe(p).link_up_count =
                   Cardinality(EventsOfKindFor(p, CABLE_INSERTED))
            /\ getPortLinkStateUnsafe(p).link_down_count =
                   Cardinality(EventsOfKindFor(p, CABLE_REMOVED))

\* C36 witness: a port inserted twice and removed once, by two threads
C36_Witness ==
    /\ NoCallInFlight
    /\ getPortLinkStateUnsafe(Ethernet0).link_up_count = 2
    /\ getPortLinkStateUnsafe(Ethernet0).link_down_count = 1
    /\ \E t \in Threads : th[t].op = "removal" /\ th[t].result = "true"


\* C37: after cleanup() (which is all the destructor runs) has returned,
\* no poller worker is running and isMonitoring is false, whatever
\* initialize, startEventMonitoring and stopEventMonitoring calls came
\* before, also when monitoring was started without a successful
\* initialize.
C37_CleanupStopsPoller ==
    \A t \in callers :
        (Returned(t) /\ th[t].op = "cleanup") =>
            /\ ~m_monitoring
            /\ AllWorkersExited


\* ------------------------------------- simulate operations on two ports
\* one driver simulates cable and transceiver events on two ports
NextFrame ==
    \E t \in Threads :
        \/ \E p \in ConcPorts : SimulateCableInsertion(t, p)
        \/ \E p \in ConcPorts : SimulateCableRemoval(t, p)
        \/ \E p \in ConcPorts, d \in SFPInfos : SimulateSFPInsertion(t, p, d)
        \/ \E p \in ConcPorts : SimulateSFPRemoval(t, p)
        \/ MixedSteps(t)
        \/ Register(t)

SpecFrame == Init /\ [][NextFrame]_vars

\* the entry map `now` has for key q is the one map `was` had, if any
SameEntry(now, was, q) ==
    /\ q \in DOMAIN now <=> q \in DOMAIN was
    /\ q \in DOMAIN now => now[q] = was[q]

\* C38: a simulate operation on port P, successful or failed, leaves the
\* LinkState and the SFP descriptor of every other port unchanged; the
\* SFP operations leave the LinkState of P unchanged and the cable
\* operations leave the local SFP descriptor of P unchanged.
C38_FrameOfSimulate ==
    \A t \in callers :
        th[t].op \in SingleEventOps =>
            /\ \A q \in ConcPorts \ {th[t].port_name} :
                  /\ SameEntry(m_port_states, pre[t].m_port_states, q)
                  /\ SameEntry(m_sfp_info, pre[t].m_sfp_info, q)
            /\ th[t].op \in SfpOps =>
                  SameEntry(m_port_states, pre[t].m_port_states,
                            th[t].port_name)
            /\ th[t].op \in CableOps =>
                  SameEntry(m_sfp_info, pre[t].m_sfp_info, th[t].port_name)

\* C38 witness: a successful SFP insertion on one port has returned while
\* the other port has a LinkState and an SFP descriptor, both stored by
\* earlier operations
C38_Witness ==
    \E t \in callers :
        /\ Returned(t) /\ th[t].op = "sfp_insertion"
        /\ th[t].result = "true"
        /\ th[t].port_name = Ethernet0
        /\ Ethernet0 \in DOMAIN m_sfp_info
        /\ Ethernet4 \in DOMAIN m_port_states
        /\ Ethernet4 \in DOMAIN m_sfp_info


\* the value the external source holds under a key, "" when it has none
Held(key) == IF key \in DOMAIN redis THEN redis[key] ELSE ""

AdminStatusKey(p) == <<CONFIG_DB, "PORT", p, "admin_status">>

\* C39: after a successful refreshPortStatusFromSONiC the State Store
\* holds exactly the ports the external source lists, each with
\* admin_status and oper_status parsed from the external fields, UNKNOWN
\* when the field is absent or could not be read, and both counters 0.
C39_RefreshMirrorsExternal ==
    \A t \in callers :
        (Returned(t) /\ th[t].op = "refresh" /\ th[t].result = "true") =>
            /\ DOMAIN m_port_states = KnownPorts(redis)
            /\ \A p \in DOMAIN m_port_states :
                  LET state == m_port_states[p]
                      admin == parseSONiCLinkStatus(Held(AdminStatusKey(p)))
                      oper == parseSONiCLinkStatus(Held(OperStatusKey(p)))
                  IN  /\ state.admin_status \in {admin, "UNKNOWN"}
                      /\ state.oper_status \in {oper, "UNKNOWN"}
                      /\ nfaults = 0 =>
                            /\ state.admin_status = admin
                            /\ state.oper_status = oper
                      /\ state.link_up_count = 0
                      /\ state.link_down_count = 0

\* C39 witness: a refresh has returned true on a State Store in which a
\* cable insertion had counted a link-up; a listed port without an
\* external oper_status is stored as UNKNOWN
C39_Witness ==
    \E t \in callers :
        /\ Returned(t) /\ th[t].op = "refresh" /\ th[t].result = "true"
        /\ Ethernet0 \in DOMAIN pre[t].m_port_states
        /\ pre[t].m_port_states[Ethernet0].link_up_count = 1
        /\ Ethernet4 \in DOMAIN m_port_states
        /\ m_port_states[Ethernet4].oper_status = "UNKNOWN"
        /\ m_port_states[Ethernet0].oper_status = "UP"

====
